---- MODULE Spec2Model ----
(***************************************************************************)
(* Model of the irreversible block log (block_log.cpp): the live           *)
(* blocks.log / blocks.index pair, the rotated segments and their catalog, *)
(* the store facade (reset, append, split_log, read, prune_transactions)   *)
(* and construction over the files a previous process left behind.         *)
(*                                                                         *)
(* Files are modelled by their content: a log is its encoded preamble      *)
(* (the fields write_to emits), its complete entries (each with the stored *)
(* size field, compression byte, block, padding and trailing position)     *)
(* and, after an interrupted write, one entry that lacks its trailing      *)
(* position.  Byte offsets are computed from the field widths, so that a   *)
(* position read from an index or from a back-pointer designates an entry  *)
(* only if it equals that entry's real starting offset.                    *)
(***************************************************************************)
EXTENDS Integers, Sequences, FiniteSets, TLC

\* ------------------------------------------------------------------ bounds
MaxBlockNum == 3
NumTags == 2
NumTrx == 1
MaxRetained == 2
MaxStride == 3
NumGenesis == 2
MaxResets == 2
MaxPrunes == 2
MaxDowns == 1
MaxKvLength == 2

\* ------------------------------------------------------- program constants
initial_version == 1
block_x_start_version == 2
genesis_state_or_chain_id_version == 3
pruned_transaction_version == 4
min_supported_version == initial_version
max_supported_version == pruned_transaction_version
npos == -1
SizeU32 == 4
SizeU64 == 8
SizeU8 == 1
SizeChainId == 32

\* Sizes of the chain layer's serializations (the types are opaque here).
GenesisPackSize == 64
BlockBasePackSize == 100
TrxFullPackSize == 50
TrxPrunedPackSize == 40
\* The value the last 8 bytes of a block payload read as, when they are not
\* padding: bytes of a signature, far beyond any file offset.
PayloadTailValue == 1000000

Trx == 1..NumTrx
Tags == 0..(NumTags - 1)
BlockNums == 1..MaxBlockNum
GenesisStates == 1..NumGenesis

Max(a, b) == IF a >= b THEN a ELSE b

\* ------------------------------------------------------------------ blocks
\* A signed_block: its number (derived from header.previous), the rest of the
\* header (tag) and the transactions that still carry context-free data.
NoBlock == [num |-> 0, tag |-> 0, cfd |-> {}]
NewBlock(n, t) == [num |-> n, tag |-> t, cfd |-> Trx]
Blocks == {NewBlock(n, t) : n \in BlockNums, t \in Tags}

\* block_header::calculate_id: a digest of the header only.
NullId == [num |-> 0, tag |-> 0]
calculate_id(b) == [num |-> b.num, tag |-> b.tag]

\* genesis_state::compute_chain_id: an injective digest; 0 is the empty id.
compute_chain_id(g) == 10 + g
EmptyChainId == 0
ChainIds == {compute_chain_id(g) : g \in GenesisStates}

pack_size(b) ==
    BlockBasePackSize + Cardinality(b.cfd) * TrxFullPackSize
                      + (NumTrx - Cardinality(b.cfd)) * TrxPrunedPackSize

maximum_pruned_pack_size(b) ==
    BlockBasePackSize + Cardinality(b.cfd) * Max(TrxFullPackSize, TrxPrunedPackSize)
                      + (NumTrx - Cardinality(b.cfd)) * TrxPrunedPackSize

\* fc::raw::pack of the signed_block_v0 form.
pack_size_v0(b) == BlockBasePackSize + NumTrx * TrxFullPackSize

\* packed_transaction::prune_all on the transactions whose id is in ids.
prune_all(b, ids) == [b EXCEPT !.cfd = b.cfd \ ids]

\* ---------------------------------------------------------------- preamble
DefaultPreamble == [version |-> 0, first_block_num |-> 0, kind |-> "genesis", val |-> 0]

chain_id(p) == IF p.kind = "chain_id" THEN p.val ELSE compute_chain_id(p.val)

contains_genesis_state(version, first_block_num) ==
    version < genesis_state_or_chain_id_version \/ first_block_num = 1

\* A faulty variant: a chain id whatever the first block number.
contains_chain_id_any_first(version, first_block_num) ==
    version >= genesis_state_or_chain_id_version

contains_chain_id(version, first_block_num) ==
    version >= genesis_state_or_chain_id_version /\ first_block_num > 1

is_supported_version(version) ==
    version >= min_supported_version /\ version <= max_supported_version

Fld(t, v) == [t |-> t, v |-> v]

\* block_log_preamble::write_to: the fields it emits.  For version 1 it reads
\* the genesis alternative of the variant, which throws when the variant holds
\* a chain id: the version field is then all that was handed to the stream.
write_to_ok(p) == p.version # initial_version \/ p.kind = "genesis"

write_to(p) ==
    IF p.version # initial_version
    THEN << Fld("u32", p.version), Fld("u32", p.first_block_num),
            Fld(p.kind, p.val), Fld("u64", npos) >>
    ELSE IF p.kind = "genesis"
         THEN << Fld("u32", p.version), Fld("genesis", p.val) >>
         ELSE << Fld("u32", p.version) >>

FieldBytes(f) ==
    CASE f.t = "u32" -> SizeU32
      [] f.t = "u64" -> SizeU64
      [] f.t = "chain_id" -> SizeChainId
      [] OTHER -> GenesisPackSize

RECURSIVE SumBytes(_)
SumBytes(fields) ==
    IF fields = <<>> THEN 0 ELSE FieldBytes(Head(fields)) + SumBytes(Tail(fields))

nbytes_with_chain_id == SizeU32 + SizeU32 + SizeChainId + SizeU64

\* block_log_preamble::read_from over the fields of a file.  ok = FALSE
\* stands for every exception it raises (and for the garbage it decodes when
\* the field it expects is not the one that was written).
BadPreamble == [ok |-> FALSE, p |-> DefaultPreamble]

read_from(fields) ==
    IF Len(fields) < 1 \/ fields[1].t # "u32" THEN BadPreamble
    ELSE LET version == fields[1].v IN
    IF ~(version > 0) \/ ~is_supported_version(version) THEN BadPreamble
    ELSE LET hasFirst == version # initial_version
             first == IF hasFirst THEN (IF Len(fields) >= 2 /\ fields[2].t = "u32"
                                        THEN fields[2].v ELSE 0)
                      ELSE 1
             ci == IF hasFirst THEN 3 ELSE 2
         IN
    IF hasFirst /\ (Len(fields) < 2 \/ fields[2].t # "u32") THEN BadPreamble
    ELSE IF Len(fields) < ci THEN BadPreamble
    ELSE IF contains_genesis_state(version, first)
         THEN IF fields[ci].t # "genesis" THEN BadPreamble
              ELSE IF hasFirst /\ (Len(fields) < ci + 1 \/ fields[ci + 1] # Fld("u64", npos))
                   THEN BadPreamble
                   ELSE [ok |-> TRUE,
                         p |-> [version |-> version, first_block_num |-> first,
                                kind |-> "genesis", val |-> fields[ci].v]]
         ELSE IF contains_chain_id(version, first)
         THEN IF fields[ci].t # "chain_id" THEN BadPreamble
              ELSE IF hasFirst /\ (Len(fields) < ci + 1 \/ fields[ci + 1] # Fld("u64", npos))
                   THEN BadPreamble
                   ELSE [ok |-> TRUE,
                         p |-> [version |-> version, first_block_num |-> first,
                                kind |-> "chain_id", val |-> fields[ci].v]]
         ELSE BadPreamble

\* ------------------------------------------------------------------- files
\* The file format version decides the entry framing.
offset_to_block_start(version) ==
    IF version >= pruned_transaction_version THEN SizeU32 + SizeU8 ELSE 0

EmptyLog == [pre |-> <<>>, entries |-> <<>>, tail |-> <<>>]

\* No blocks-bad-tail file; one holds the entries and the interrupted entry
\* that were spilled into it.
NoTail == [written |-> FALSE, entries |-> <<>>, tail |-> <<>>]

FileVersion(f) == IF f.pre = <<>> THEN 0 ELSE f.pre[1].v

\* Bytes an entry occupies, its trailing position included.
EntryBytes(version, e) ==
    IF version >= pruned_transaction_version
    THEN offset_to_block_start(version) + pack_size(e.block) + e.pad + SizeU64
    ELSE pack_size_v0(e.block) + SizeU64

RECURSIVE EntriesBytes(_, _)
EntriesBytes(version, es) ==
    IF es = <<>> THEN 0
    ELSE EntryBytes(version, Head(es)) + EntriesBytes(version, Tail(es))

\* An interrupted entry lacks its trailing position.
TailBytes(f) ==
    IF f.tail = <<>> THEN 0 ELSE EntryBytes(FileVersion(f), f.tail[1]) - SizeU64

FileSize(f) == SumBytes(f.pre) + EntriesBytes(FileVersion(f), f.entries) + TailBytes(f)

EntryStart(f, i) == SumBytes(f.pre) + EntriesBytes(FileVersion(f), SubSeq(f.entries, 1, i - 1))

TailStart(f) == SumBytes(f.pre) + EntriesBytes(FileVersion(f), f.entries)

\* The complete entry that starts at byte offset pos (0: there is none).
EntryIndexAt(f, pos) ==
    LET S == {i \in 1..Len(f.entries) : EntryStart(f, i) = pos}
    IN IF S = {} THEN 0 ELSE CHOOSE i \in S : TRUE

\* ------------------------------------------------- block_log_data (a view)
Last(s) == s[Len(s)]

\* read_buffer<uint64_t>(data() + size() - 8): the last 8 bytes of the file.
\* They are the last entry's trailing position, the end of an interrupted
\* entry's payload, or the end of the preamble (the totem from version 2 on,
\* genesis bytes in version 1).
last_block_position(f) ==
    IF f.tail # <<>> THEN f.tail[1].bp
    ELSE IF f.entries # <<>> THEN Last(f.entries).bp
    ELSE IF f.pre # <<>> /\ Last(f.pre).t = "u64" THEN Last(f.pre).v
    ELSE PayloadTailValue

first_block_position(f) == SumBytes(f.pre)

\* block_num_at: the number held at position + 14 (+ 5 for version 4).  It is
\* a block number only when position starts an entry; ok = FALSE stands for
\* the failed range check and for the bytes of anything else.
block_num_at(f, position) ==
    IF position < 0 \/ position > FileSize(f) THEN [ok |-> FALSE, num |-> 0]
    ELSE IF EntryIndexAt(f, position) # 0
         THEN [ok |-> TRUE, num |-> f.entries[EntryIndexAt(f, position)].block.num]
    ELSE IF f.tail # <<>> /\ position = TailStart(f)
         THEN [ok |-> TRUE, num |-> f.tail[1].block.num]
    ELSE [ok |-> FALSE, num |-> 0]

last_block_num(f) == block_num_at(f, last_block_position(f))

\* num_blocks: 0 for a log that ends with its preamble.
num_blocks(f) ==
    IF first_block_position(f) = FileSize(f) THEN [ok |-> TRUE, n |-> 0]
    ELSE IF ~last_block_num(f).ok THEN [ok |-> FALSE, n |-> 0]
    ELSE [ok |-> TRUE, n |-> last_block_num(f).num - read_from(f.pre).p.first_block_num + 1]

\* The stored size field at an entry start (version 4).
EntrySizeAt(f, pos) ==
    IF EntryIndexAt(f, pos) # 0 THEN f.entries[EntryIndexAt(f, pos)].size
    ELSE IF f.tail # <<>> /\ pos = TailStart(f) THEN f.tail[1].size
    ELSE 0

\* read_buffer<uint64_t> at byte offset at: the trailing position of the
\* entry that ends at at + 8, anything else reads as bytes that are no position.
U64At(f, at) ==
    LET S == {i \in 1..Len(f.entries) :
                 EntryStart(f, i) + EntryBytes(FileVersion(f), f.entries[i]) = at + SizeU64}
    IN IF S # {} THEN f.entries[CHOOSE i \in S : TRUE].bp
       ELSE IF at + SizeU64 = first_block_position(f) /\ f.pre # <<>> /\ Last(f.pre).t = "u64"
            THEN Last(f.pre).v
       ELSE PayloadTailValue

\* light_validate_block_entry_at: TRUE when it returns, FALSE when it throws.
light_validate_block_entry_at(f, pos, expected_block_num) ==
    /\ block_num_at(f, pos).ok
    /\ block_num_at(f, pos).num = expected_block_num
    /\ (FileVersion(f) >= pruned_transaction_version
          => U64At(f, pos + EntrySizeAt(f, pos) - SizeU64) = pos)

\* unpack(ds, block) for version 4 and fc::raw::unpack for the legacy form,
\* then read_block's check of the number.
ReadErr == [st |-> "err", block |-> NoBlock]
ReadNone == [st |-> "none", block |-> NoBlock]
ReadOk(b) == [st |-> "ok", block |-> b]

unpack(e) ==
    IF e.comp # 0 THEN ReadErr
    ELSE IF e.size - SizeU64 - (SizeU32 + SizeU8 + pack_size(e.block)) < 0 THEN ReadErr
    ELSE ReadOk(e.block)

read_block(f, pos, version, expect_block_num) ==
    LET i == EntryIndexAt(f, pos) IN
    IF i = 0 \/ version # FileVersion(f) THEN ReadErr
    ELSE LET r == IF version >= pruned_transaction_version
                  THEN unpack(f.entries[i]) ELSE ReadOk(f.entries[i].block)
         IN IF r.st = "ok" /\ expect_block_num # 0 /\ r.block.num # expect_block_num
            THEN ReadErr ELSE r

\* read_block_id: the header only; for version 4 the size is read and not used.
IdErr == [st |-> "err", id |-> NullId]
IdNone == [st |-> "none", id |-> NullId]

read_block_id(f, pos, version, expect_block_num) ==
    LET i == EntryIndexAt(f, pos) IN
    IF i = 0 \/ version # FileVersion(f) THEN IdErr
    ELSE IF version >= pruned_transaction_version /\ f.entries[i].comp # 0 THEN IdErr
    ELSE IF f.entries[i].block.num # expect_block_num THEN IdErr
    ELSE [st |-> "ok", id |-> calculate_id(f.entries[i].block)]

\* ------------------------------------------------------------ index builder
\* reverse_block_position_iterator from the entry whose trailing position is
\* under the cursor (0: the cursor is at begin_position, get_value is npos).
\* Yields the positions found, last block first, at most n of them; a value
\* that starts no entry sends the cursor into bytes that are no position.
RECURSIVE ReverseWalk(_, _, _)
ReverseWalk(f, i, n) ==
    IF n = 0 \/ i = 0 THEN <<>>
    ELSE LET v == f.entries[i].bp
             j == EntryIndexAt(f, v)
         IN IF v = npos THEN <<>>
            ELSE IF j = 0 THEN << v >>
            ELSE << v >> \o ReverseWalk(f, j - 1, n - 1)

\* A faulty variant: the positions in the order the walk found them.
Reverse_not(s) == s

\* index_writer fills the file from its end: the positions in block order.
Reverse(s) == [k \in 1..Len(s) |-> s[Len(s) + 1 - k]]

\* block_log::construct_index.  st = "ok": idx is the index file afterwards
\* (the old one when the log holds no block); st = "err": it threw, before
\* creating the file (idx is the old one) or after (idx is the zero-filled or
\* partly written file it leaves).
construct_index(f, old_idx) ==
    IF ~read_from(f.pre).ok THEN [st |-> "err", idx |-> old_idx]
    ELSE IF first_block_position(f) = FileSize(f) THEN [st |-> "ok", idx |-> old_idx]
    ELSE IF f.tail # <<>>
         \* the last 8 bytes are payload: beyond the file (block_num_at throws)
         \* or zero padding (a block count read from preamble bytes, a
         \* zero-filled index, then a cursor that leaves the mapping)
         THEN IF last_block_position(f) > FileSize(f)
              THEN [st |-> "err", idx |-> old_idx]
              ELSE [st |-> "err", idx |-> << 0 >>]
    ELSE IF ~num_blocks(f).ok THEN [st |-> "err", idx |-> old_idx]
    ELSE LET n == num_blocks(f).n IN
    IF n = 0 THEN [st |-> "ok", idx |-> old_idx]
    ELSE IF n < 0 THEN [st |-> "err", idx |-> << 0 >>]
    ELSE LET w == ReverseWalk(f, Len(f.entries), n) IN
         IF Len(w) = n /\ EntryIndexAt(f, w[n]) # 0
         THEN [st |-> "ok", idx |-> Reverse(w)]
         ELSE [st |-> "err",
               idx |-> [k \in 1..n |-> IF k > n - Len(w) THEN w[n + 1 - k] ELSE 0]]

\* reverse_block_position_iterator over the bytes of f: the cursor starts on
\* the last 8 bytes of the file; get_value is npos at or below begin_position,
\* else the 8 bytes under the cursor; operator++ moves the cursor to the 8
\* bytes before the position it reads and throws when the cursor is out of
\* range.
begin_position(f) == first_block_position(f) - SizeU64

get_value(f, current_position) ==
    IF current_position <= begin_position(f) THEN npos ELSE U64At(f, current_position)

InRange(f, current_position) ==
    current_position > begin_position(f) /\ current_position < FileSize(f)

\* A faulty variant: the cursor moves onto the position read, not before it.
Advance_onto(f, current_position) == U64At(f, current_position)

Advance(f, current_position) == U64At(f, current_position) - SizeU64

\* The values the iterator yields from current_position on until get_value is
\* npos (end "npos") or operator++ throws (end "throw"); steps bounds the
\* walk over a file whose positions lead in a circle (end "more").
RECURSIVE ReversePositions(_, _, _)
ReversePositions(f, current_position, steps) ==
    IF get_value(f, current_position) = npos THEN [vals |-> <<>>, end |-> "npos"]
    ELSE IF steps = 0 THEN [vals |-> <<>>, end |-> "more"]
    ELSE IF ~InRange(f, current_position)
    THEN [vals |-> << get_value(f, current_position) >>, end |-> "throw"]
    ELSE LET rest == ReversePositions(f, Advance(f, current_position), steps - 1)
         IN [vals |-> << get_value(f, current_position) >> \o rest.vals, end |-> rest.end]

\* make_reverse_block_position_iterator(log_data) and the loop over it.
reverse_walk(f) == ReversePositions(f, FileSize(f) - SizeU64, Len(f.entries) + 1)

\* ------------------------------------------------------------------- state
VARIABLES
    up,                  \* a block_log object exists
    stride,              \* constructor parameters, the same at every construction
    max_retained_files,
    archive_dir,         \* TRUE: an archive directory is configured
    default_version,     \* block_log_impl::default_version
    blog,                \* data_dir/blocks.log
    bindex,              \* data_dir/blocks.index (its u64 values)
    seg_logs,            \* data_dir/blocks-<first>-<last>.log, by name
    seg_idxs,            \* data_dir/blocks-<first>-<last>.index, by name
    arch_logs,           \* names of the .log files in the archive directory
    arch_idxs,           \* names of the .index files in the archive directory
    catalog,             \* block_log_impl::catalog
    head,                \* block_log_impl::head (NoBlock: null)
    preamble,            \* block_log_impl::preamble
    genesis_written_to_block_log,
    backup_log,          \* blocks.log of the backup directory repair_log made last
    bad_tail,            \* data_dir/blocks-bad-tail-<time>.log
    ret,                 \* the last call and what it returned
    applog,              \* blocks appended since the last reset, in order
    hist                 \* how many calls of each kind were made, whether one threw,
                         \* and whether a size field of blocks.log was damaged

vars == << up, stride, max_retained_files, archive_dir, default_version, blog, bindex,
           seg_logs, seg_idxs, arch_logs, arch_idxs, catalog, head, preamble,
           genesis_written_to_block_log, backup_log, bad_tail, ret, applog, hist >>

Name(first, last) == [first |-> first, last |-> last]
EmptyDir == [n \in {} |-> EmptyLog]
EmptyIdxDir == [n \in {} |-> <<>>]
Remove(dir, names) == [n \in (DOMAIN dir) \ names |-> dir[n]]

EmptyCatalog ==
    [chain_id |-> EmptyChainId, collection |-> <<>>, active_index |-> 0,
     log_data |-> EmptyLog, log_index |-> <<>>]

\* The files and the object's members, as one value the handlers transform;
\* ok = FALSE: the handler threw, the value is what it left behind.
World ==
    [ok |-> TRUE, blog |-> blog, bindex |-> bindex, seg_logs |-> seg_logs,
     seg_idxs |-> seg_idxs, arch_logs |-> arch_logs, arch_idxs |-> arch_idxs,
     catalog |-> catalog, head |-> head, preamble |-> preamble,
     genesis_written |-> genesis_written_to_block_log, err |-> "", pos |-> 0,
     count |-> 0, ids |-> {}, backup_log |-> backup_log, bad_tail |-> bad_tail]

Throw(w, what) == [w EXCEPT !.ok = FALSE, !.err = what]

\* ----------------------------------------------------------------- catalog
\* block_log_catalog::index_matches_data.
index_matches_data(idxs, name, log) ==
    IF name \in DOMAIN idxs /\ num_blocks(log).ok /\ Len(idxs[name]) # num_blocks(log).n
    THEN Len(idxs[name]) > 0 /\ Last(idxs[name]) = last_block_position(log)
    ELSE FALSE

\* flat_map::emplace: sorted by first block number, an existing key is kept.
InsertSorted(c, item) ==
    IF \E i \in 1..Len(c) : c[i].first = item.first THEN c
    ELSE LET k == Cardinality({i \in 1..Len(c) : c[i].first < item.first})
         IN SubSeq(c, 1, k) \o << item >> \o SubSeq(c, k + 1, Len(c))

\* flat_map::insert_or_assign.
InsertOrAssign(c, item) ==
    IF \E i \in 1..Len(c) : c[i].first = item.first
    THEN [i \in 1..Len(c) |-> IF c[i].first = item.first THEN item ELSE c[i]]
    ELSE InsertSorted(c, item)

\* block_log_catalog::set_active_item: whether it returns true, and the
\* catalog afterwards.
set_active_item(cat, logs, idxs, block_num) ==
    LET c == cat.collection
        a == cat.active_index
    IN
    IF a # 0 /\ a <= Len(c) /\ c[a].first <= block_num /\ block_num <= c[a].last
    THEN [ok |-> TRUE, cat |-> cat]
    ELSE IF c = <<>> \/ block_num < c[1].first THEN [ok |-> FALSE, cat |-> cat]
    ELSE LET k == Cardinality({i \in 1..Len(c) : c[i].first <= block_num}) IN
         IF block_num <= c[k].last
         THEN IF c[k].name \in DOMAIN logs /\ read_from(logs[c[k].name].pre).ok
                 /\ c[k].name \in DOMAIN idxs
              THEN [ok |-> TRUE,
                    cat |-> [cat EXCEPT !.log_data = logs[c[k].name],
                                        !.log_index = idxs[c[k].name],
                                        !.active_index = k]]
              ELSE [ok |-> FALSE, cat |-> [cat EXCEPT !.active_index = 0]]
         ELSE [ok |-> FALSE, cat |-> cat]

\* block_log_catalog::datastream_for_block followed by read_block: the index
\* slot is block_num - first_block_num of the bound log, whatever segment the
\* active ordinal names; a slot outside the mapped index is read all the same.
ReadUb == [st |-> "ub", block |-> NoBlock]
IdUb == [st |-> "ub", id |-> NullId]

CatalogSlot(cat, block_num) == block_num - read_from(cat.log_data.pre).p.first_block_num + 1

catalog_read_block(cat, block_num) ==
    LET k == CatalogSlot(cat, block_num) IN
    IF k < 1 \/ k > Len(cat.log_index) THEN ReadUb
    ELSE read_block(cat.log_data, cat.log_index[k], FileVersion(cat.log_data), block_num)

catalog_read_block_id(cat, block_num) ==
    LET k == CatalogSlot(cat, block_num) IN
    IF k < 1 \/ k > Len(cat.log_index) THEN IdUb
    ELSE read_block_id(cat.log_data, cat.log_index[k], FileVersion(cat.log_data), block_num)

\* block_log_catalog::add on the world w: the evicted prefix is deleted or
\* moved to the archive directory, the active ordinal shifted, and the new
\* segment recorded unless nothing is retained.
\* A faulty count: one evicted segment too few.
ItemsToErase_one_less(c) ==
    IF Len(c) >= max_retained_files THEN Len(c) - max_retained_files ELSE 0

ItemsToErase(c) ==
    IF Len(c) >= max_retained_files
    THEN IF max_retained_files > 0 THEN Len(c) - max_retained_files + 1 ELSE Len(c)
    ELSE 0

ShiftActive(a, c) ==
    IF Len(c) >= max_retained_files
    THEN IF a = 0 \/ a - 1 < ItemsToErase(c) THEN 0 ELSE a - ItemsToErase(c)
    ELSE a

\* A faulty variant: the new segment is never recorded.
Recorded_never(kept, item) == kept

Recorded(kept, item) == IF max_retained_files > 0 THEN InsertSorted(kept, item) ELSE kept

add(w, start_block_num, end_block_num, name) ==
    LET c == w.catalog.collection
        j == ItemsToErase(c)
        erased == {c[i].name : i \in 1..j}
        kept == SubSeq(c, j + 1, Len(c))
        item == [first |-> start_block_num, last |-> end_block_num, name |-> name]
    IN
    IF archive_dir /\ \E n \in erased : n \notin DOMAIN w.seg_logs \/ n \notin DOMAIN w.seg_idxs
    THEN Throw(w, "rename")
    ELSE [w EXCEPT !.seg_logs = Remove(w.seg_logs, erased),
                   !.seg_idxs = Remove(w.seg_idxs, erased),
                   !.arch_logs = IF archive_dir THEN w.arch_logs \cup erased ELSE w.arch_logs,
                   !.arch_idxs = IF archive_dir THEN w.arch_idxs \cup erased ELSE w.arch_idxs,
                   !.catalog = [w.catalog EXCEPT
                                   !.collection = Recorded(kept, item),
                                   !.active_index = ShiftActive(w.catalog.active_index, c)]]

\* ------------------------------------------------------------------- store
\* pack(block, compression): the size field, the compression byte, the block
\* and the zero padding up to maximum_pruned_pack_size.
\* A faulty variant: the size field leaves out the trailing position.
pack_without_position(b) ==
    [size |-> maximum_pruned_pack_size(b) + offset_to_block_start(max_supported_version),
     comp |-> 0, block |-> b, pad |-> maximum_pruned_pack_size(b) - pack_size(b)]

pack(b) ==
    [size |-> maximum_pruned_pack_size(b) + offset_to_block_start(max_supported_version) + SizeU64,
     comp |-> 0, block |-> b, pad |-> maximum_pruned_pack_size(b) - pack_size(b)]

\* The legacy entry is the packed signed_block_v0 alone.
pack_v0(b) == [size |-> 0, comp |-> 0, block |-> b, pad |-> 0]

Entry(buffer, pos) ==
    [size |-> buffer.size, comp |-> buffer.comp, block |-> buffer.block,
     pad |-> buffer.pad, bp |-> pos]

\* A faulty variant: the offset after the size field instead of the entry start.
IndexValue_past_size(pos) == pos + SizeU32

\* What write_log_entry puts in the index for an entry written at pos.
IndexValue(pos) == pos

\* block_log_impl::write_log_entry at the end of both files.
write_log_entry(w, b) ==
    LET pos == FileSize(w.blog)
        buffer == IF w.preamble.version >= pruned_transaction_version
                  THEN pack(b) ELSE pack_v0(b)
    IN [w EXCEPT !.blog.entries = Append(w.blog.entries, Entry(buffer, pos)),
                 !.bindex = Append(w.bindex, IndexValue(pos)),
                 !.pos = pos]

\* A faulty variant: the new live log starts at the head instead of after it.
SplitPreamble_at_head(p, head_num) ==
    [version |-> max_supported_version, first_block_num |-> head_num,
     kind |-> "chain_id", val |-> chain_id(p)]

\* The preamble split_log starts the new live log with.
SplitPreamble(p, head_num) ==
    [version |-> max_supported_version, first_block_num |-> head_num + 1,
     kind |-> "chain_id", val |-> chain_id(p)]

\* block_log_impl::split_log: register the segment, rename the live files to
\* its name, start a new live log.
split_log(w) ==
    LET name == Name(w.preamble.first_block_num, w.head.num)
        w1 == add(w, w.preamble.first_block_num, w.head.num, name)
        p2 == SplitPreamble(w.preamble, w.head.num)
    IN IF ~w1.ok THEN w1
       ELSE [w1 EXCEPT !.seg_logs = (name :> w.blog) @@ w1.seg_logs,
                       !.seg_idxs = (name :> w.bindex) @@ w1.seg_idxs,
                       !.blog = [pre |-> write_to(p2), entries |-> <<>>, tail |-> <<>>],
                       !.bindex = <<>>,
                       !.preamble = p2]

\* A faulty variant: the offset counted from block 1, whatever the log's first block.
ExpectedIndexSize_from_one(p, n) == SizeU64 * (n - 1)

\* The index offset append expects for block number n.
ExpectedIndexSize(p, n) == SizeU64 * (n - p.first_block_num)

ShouldSplit(n) == n % stride = 0

\* A faulty variant: the block is written whatever its number.
append_any_number(w, b) ==
    IF ~w.genesis_written THEN Throw(w, "AppendBeforeReset")
    ELSE LET w1 == [write_log_entry(w, b) EXCEPT !.head = b]
         IN IF ShouldSplit(b.num) THEN split_log(w1) ELSE w1

\* block_log_impl::append.
append(w, b) ==
    IF ~w.genesis_written THEN Throw(w, "AppendBeforeReset")
    ELSE IF SizeU64 * Len(w.bindex) # ExpectedIndexSize(w.preamble, b.num)
    THEN Throw(w, "IndexDesync")
    ELSE LET w1 == [write_log_entry(w, b) EXCEPT !.head = b]
         IN IF ShouldSplit(b.num) THEN split_log(w1) ELSE w1

\* A faulty variant: the preamble is written and the flag left as it was.
reset_without_flag(w, first_bnum, kind, val) ==
    LET p == [version |-> default_version, first_block_num |-> first_bnum,
              kind |-> kind, val |-> val]
    IN [w EXCEPT !.blog = [pre |-> write_to(p), entries |-> <<>>, tail |-> <<>>],
                 !.bindex = <<>>,
                 !.preamble = p]

\* block_log_impl::reset: truncate both files and write the preamble.
reset(w, first_bnum, kind, val) ==
    LET p == [version |-> default_version, first_block_num |-> first_bnum,
              kind |-> kind, val |-> val]
        w1 == [w EXCEPT !.blog = [pre |-> write_to(p), entries |-> <<>>, tail |-> <<>>],
                        !.bindex = <<>>,
                        !.preamble = p]
    IN IF write_to_ok(p) THEN [w1 EXCEPT !.genesis_written = TRUE]
       ELSE Throw(w1, "bad_variant_access")

\* block_log::reset(genesis_state, first_block, compression).
reset_genesis(w, g, first_block) == append(reset(w, 1, "genesis", g), first_block)

\* block_log::reset(chain_id, first_block_num).
reset_chain_id(w, cid, first_block_num) ==
    IF ~(first_block_num > 1) THEN Throw(w, "first_block_num")
    ELSE IF ~(w.catalog.chain_id = EmptyChainId \/ cid = w.catalog.chain_id)
    THEN Throw(w, "chain_id")
    ELSE LET w1 == reset(w, first_block_num, "chain_id", cid)
         IN IF w1.ok THEN [w1 EXCEPT !.head = NoBlock] ELSE w1

\* A faulty variant: no lower bound on the block number.
get_block_pos_no_lower(w, block_num) ==
    IF ~(w.head # NoBlock /\ block_num <= w.head.num)
    THEN [st |-> "npos", pos |-> npos]
    ELSE LET k == block_num - w.preamble.first_block_num + 1
         IN IF k > Len(w.bindex) \/ k < 1 THEN [st |-> "err", pos |-> npos]
            ELSE [st |-> "ok", pos |-> w.bindex[k]]

\* block_log_impl::get_block_pos: npos outside the live range, else the
\* index slot (a read past the end of the index file throws).
get_block_pos(w, block_num) ==
    IF ~(w.head # NoBlock /\ block_num <= w.head.num /\ block_num >= w.preamble.first_block_num)
    THEN [st |-> "npos", pos |-> npos]
    ELSE LET k == block_num - w.preamble.first_block_num + 1
         IN IF k > Len(w.bindex) THEN [st |-> "err", pos |-> npos]
            ELSE [st |-> "ok", pos |-> w.bindex[k]]

\* block_log_impl::read_block_by_num: the result and the catalog afterwards.
read_block_by_num(w, block_num) ==
    LET gp == get_block_pos(w, block_num)
        sa == set_active_item(w.catalog, w.seg_logs, w.seg_idxs, block_num)
    IN IF gp.st = "err" THEN [res |-> ReadErr, cat |-> w.catalog]
       ELSE IF gp.st = "ok" /\ gp.pos # npos
       THEN [res |-> read_block(w.blog, gp.pos, w.preamble.version, block_num),
             cat |-> w.catalog]
       ELSE IF sa.ok THEN [res |-> catalog_read_block(sa.cat, block_num), cat |-> sa.cat]
       ELSE [res |-> ReadNone, cat |-> sa.cat]

\* block_log_impl::read_block_id_by_num.
read_block_id_by_num(w, block_num) ==
    LET gp == get_block_pos(w, block_num)
        sa == set_active_item(w.catalog, w.seg_logs, w.seg_idxs, block_num)
    IN IF gp.st = "err" THEN [res |-> IdErr, cat |-> w.catalog]
       ELSE IF gp.st = "ok" /\ gp.pos # npos
       THEN [res |-> read_block_id(w.blog, gp.pos, w.preamble.version, block_num),
             cat |-> w.catalog]
       ELSE IF sa.ok THEN [res |-> catalog_read_block_id(sa.cat, block_num), cat |-> sa.cat]
       ELSE [res |-> IdNone, cat |-> sa.cat]

\* A faulty variant: the trailing position counted as part of the block.
max_block_size_with_tail(e, version) == e.size - offset_to_block_start(version)

\* The buffer prune_transactions packs the pruned block into.
max_block_size(e, version) == e.size - offset_to_block_start(version) - SizeU64

\* Writing nbytes at the block start of entry e: the payload region is
\* rewritten (the block, then zeros); bytes written past the region land on
\* the trailing position.
\* A faulty variant: the pruned block alone is written, no zeros after it.
WriteBlock_unpadded(e, nb, nbytes) == [e EXCEPT !.block = nb]

WriteBlock(e, nb, nbytes) ==
    LET region == pack_size(e.block) + e.pad
    IN [e EXCEPT !.block = nb,
                 !.pad = region - pack_size(nb),
                 !.bp = IF nbytes > region THEN 0 ELSE e.bp]

\* block_log::prune_transactions; count is the return value and ids what is
\* left of the caller's list.  Every transaction of the block whose id is in
\* the list is pruned, erased from the list and counted, whether or not it
\* still carried context-free data.
prune_transactions(w, block_num, ids) ==
    LET gp == get_block_pos(w, block_num)
        i == EntryIndexAt(w.blog, gp.pos)
    IN
    IF ~(w.preamble.version >= pruned_transaction_version) THEN Throw(w, "version")
    ELSE IF gp.st = "err" THEN Throw(w, "read")
    ELSE IF gp.pos = npos THEN Throw(w, "not_in_log")
    ELSE IF i = 0 \/ w.preamble.version # FileVersion(w.blog) THEN Throw(w, "unpack")
    ELSE LET e == w.blog.entries[i]
             hit == ids \cap Trx
             nb == prune_all(e.block, hit)
             nbytes == max_block_size(e, w.preamble.version)
         IN
         IF unpack(e).st # "ok" THEN Throw(w, "unpack")
         ELSE IF e.block.num # block_num THEN Throw(w, "wrong_block")
         ELSE IF hit = {} THEN [w EXCEPT !.ids = ids]
         ELSE IF pack_size(nb) > nbytes THEN Throw([w EXCEPT !.ids = ids \ hit], "pack")
         ELSE [w EXCEPT !.blog.entries[i] = WriteBlock(e, nb, nbytes),
                        !.count = Cardinality(hit),
                        !.ids = ids \ hit]

\* block_log::first_block_num: the first cataloged segment's, else the live
\* preamble's.
block_log_first_block_num(w) ==
    IF w.catalog.collection # <<>> THEN w.catalog.collection[1].first
    ELSE w.preamble.first_block_num

\* ------------------------------------------------------------ construction
\* boost::filesystem::resize_file to the end of the entry that starts at pos.
TruncateAfter(f, pos) ==
    [f EXCEPT !.entries = SubSeq(f.entries, 1, EntryIndexAt(f, pos)), !.tail = <<>>]

\* A faulty variant: the version test excludes version 4 itself.
recover_after_version_4(p, f, idx) ==
    /\ p.version > pruned_transaction_version
    /\ FileSize(f) > Last(idx) + SizeU32
    /\ FileSize(f) > Last(idx) + EntrySizeAt(f, Last(idx))

\* block_log_impl::recover_from_incomplete_block_head: TRUE when it trimmed
\* the log to the end of the last indexed entry.
recover_from_incomplete_block_head(p, f, idx) ==
    /\ p.version >= pruned_transaction_version
    /\ FileSize(f) > Last(idx) + SizeU32
    /\ FileSize(f) > Last(idx) + EntrySizeAt(f, Last(idx))
    /\ light_validate_block_entry_at(f, Last(idx), p.first_block_num + Len(idx) - 1)

\* The constructor's reconciliation of blocks.log with blocks.index: the
\* index is left alone, the log trimmed to it, or the index built anew.
IndexRebuilt(wp, ci) ==
    IF ci.st = "ok" THEN [wp EXCEPT !.bindex = ci.idx]
    ELSE Throw([wp EXCEPT !.bindex = ci.idx], "construct_index")

ReconcileRead(w, rp, wp) ==
    IF ~rp.ok THEN Throw(w, "preamble")
    ELSE IF ~(w.catalog.chain_id = EmptyChainId \/ w.catalog.chain_id = chain_id(rp.p))
    THEN Throw(wp, "chain_id")
    ELSE IF w.bindex # <<>> /\ last_block_position(w.blog) = Last(w.bindex)
    THEN wp
    ELSE IF w.bindex # <<>> /\ recover_from_incomplete_block_head(rp.p, w.blog, w.bindex)
    THEN [wp EXCEPT !.blog = TruncateAfter(w.blog, Last(w.bindex))]
    ELSE IndexRebuilt(wp, construct_index(w.blog, w.bindex))

ReconcilePreamble(w, rp) ==
    ReconcileRead(w, rp, [w EXCEPT !.preamble = rp.p, !.genesis_written = TRUE])

ReconcileIndex(w) ==
    IF FileSize(w.blog) = 0
    THEN [w EXCEPT !.bindex = <<>>]
    ELSE ReconcilePreamble(w, read_from(w.blog.pre))

\* block_log_impl::read_head: the block the last 8 bytes of the log point at.
read_head(w) ==
    LET pos == last_block_position(w.blog)
        r == read_block(w.blog, pos, w.preamble.version, 0)
    IN IF pos = npos THEN w
       ELSE IF r.st = "ok" THEN [w EXCEPT !.head = r.block]
       ELSE Throw(w, "read_head")

\* block_log_catalog::open: every blocks-<first>-<last>.log of the directory,
\* in the order of their names.
FirstName(names) ==
    CHOOSE n \in names :
        \A m \in names : n.first < m.first \/ (n.first = m.first /\ n.last <= m.last)

OldIndex(w, nm) == IF nm \in DOMAIN w.seg_idxs THEN w.seg_idxs[nm] ELSE <<>>

\* The index file after the rebuild, and the chain id the catalog keeps.
SegmentIndexed(w, nm, rebuild, ci, cid) ==
    [w EXCEPT !.seg_idxs = IF rebuild /\ (ci.idx # <<>> \/ nm \in DOMAIN w.seg_idxs)
                           THEN (nm :> ci.idx) @@ w.seg_idxs ELSE w.seg_idxs,
              !.catalog.chain_id = cid]

\* The segment enters the collection unless one with the same first block
\* and no smaller last block is there already.
SegmentRecorded(w, item) ==
    LET c == w.catalog.collection
        dup == {i \in 1..Len(c) : c[i].first = item.first}
    IN IF dup # {} /\ item.last <= c[CHOOSE i \in dup : TRUE].last
       THEN w
       ELSE [w EXCEPT !.catalog.collection = InsertOrAssign(c, item)]

SegmentChecked(w, nm, first, lbn, failed) ==
    IF failed THEN Throw(w, "construct_index")
    ELSE IF ~lbn.ok THEN Throw(w, "block_num_at")
    ELSE SegmentRecorded(w, [first |-> first, last |-> lbn.num, name |-> nm])

OpenSegment(w, nm, log, rp, rebuild, ci) ==
    IF ~rp.ok THEN Throw(w, "preamble")
    ELSE IF w.catalog.chain_id # EmptyChainId /\ w.catalog.chain_id # chain_id(rp.p)
    THEN Throw(w, "chain_id")
    ELSE SegmentChecked(SegmentIndexed(w, nm, rebuild, ci, chain_id(rp.p)), nm,
                        rp.p.first_block_num, last_block_num(log),
                        rebuild /\ ci.st # "ok")

OpenNamed(w, nm) ==
    OpenSegment(w, nm, w.seg_logs[nm], read_from(w.seg_logs[nm].pre),
                ~index_matches_data(w.seg_idxs, nm, w.seg_logs[nm]),
                construct_index(w.seg_logs[nm], OldIndex(w, nm)))

RECURSIVE catalog_open(_, _)
catalog_open(w, names) ==
    IF names = {} \/ ~w.ok THEN w
    ELSE catalog_open(OpenNamed(w, FirstName(names)), names \ {FirstName(names)})

\* block_log_impl::block_log_impl over the files of the directory.
ConstructReconciled(w) ==
    IF ~w.ok THEN w
    ELSE IF FileSize(w.blog) # 0 THEN read_head(w) ELSE w

ConstructOpened(w) == IF ~w.ok THEN w ELSE ConstructReconciled(ReconcileIndex(w))

construct(w) ==
    ConstructOpened(catalog_open([w EXCEPT !.catalog = EmptyCatalog, !.head = NoBlock,
                                           !.preamble = DefaultPreamble,
                                           !.genesis_written = FALSE],
                                 DOMAIN w.seg_logs))

\* ------------------------------------------------------------------ trimming
\* boost::filesystem::resize_file(blocks.log, p): the fields and entries that
\* end at or before byte p stay, an entry cut by p stays as an interrupted one.
RECURSIVE FieldsWithin(_, _)
FieldsWithin(pre, p) ==
    IF pre = <<>> \/ FieldBytes(Head(pre)) > p THEN <<>>
    ELSE << Head(pre) >> \o FieldsWithin(Tail(pre), p - FieldBytes(Head(pre)))

ResizeLog(f, p) ==
    LET kept == {i \in 1..Len(f.entries) :
                    EntryStart(f, i) + EntryBytes(FileVersion(f), f.entries[i]) <= p}
        k == Cardinality(kept)
    IN IF p >= FileSize(f) THEN f
       ELSE IF p < first_block_position(f)
       THEN [pre |-> FieldsWithin(f.pre, p), entries |-> <<>>, tail |-> <<>>]
       ELSE [f EXCEPT !.entries = SubSeq(f.entries, 1, k),
                      !.tail = IF k < Len(f.entries) /\ EntryStart(f, k + 1) < p
                               THEN << [f.entries[k + 1] EXCEPT !.bp = PayloadTailValue] >>
                               ELSE <<>>]

\* block_log_archive::block_log_archive: both files are mapped (an empty file
\* cannot be), the preamble read and the two block counts compared.
ArchiveOpens(w) ==
    /\ FileSize(w.blog) > 0
    /\ w.bindex # <<>>
    /\ read_from(w.blog.pre).ok
    /\ num_blocks(w.blog).ok
    /\ num_blocks(w.blog).n = Len(w.bindex)

\* What nth_block_position(n) reads: the slot of the mapped index, or, past
\* its end, the zero fill of the last page or a fault.
PastIndex == {"zero", "fault"}

nth_block_position(idx, n, past) ==
    IF n + 1 <= Len(idx) THEN [st |-> "ok", pos |-> idx[n + 1]]
    ELSE IF past = "zero" THEN [st |-> "ok", pos |-> 0]
    ELSE [st |-> "fault", pos |-> 0]

\* block_log::trim_blocklog_end; count is the value returned.
trim_blocklog_end(w, n, past) ==
    LET first == read_from(w.blog.pre).p.first_block_num
        to_trim_block_index == n + 1 - first
        to_trim_block_position == nth_block_position(w.bindex, to_trim_block_index, past)
    IN IF ~ArchiveOpens(w) THEN Throw(w, "archive")
       ELSE IF n < first THEN [w EXCEPT !.count = 1]
       ELSE IF n > last_block_num(w.blog).num THEN [w EXCEPT !.count = 2]
       ELSE IF to_trim_block_position.st = "fault" THEN Throw(w, "fault")
       ELSE [w EXCEPT !.blog = ResizeLog(w.blog, to_trim_block_position.pos),
                      !.bindex = SubSeq(w.bindex, 1, to_trim_block_index),
                      !.count = 0]

\* A faulty variant: the new log keeps the old first block number.
TrimPreamble_old_first(old, truncate_at_block) ==
    [version |-> IF old.version < pruned_transaction_version
                 THEN genesis_state_or_chain_id_version ELSE max_supported_version,
     first_block_num |-> old.first_block_num,
     kind |-> "chain_id", val |-> chain_id(old)]

\* The preamble trim_blocklog_front starts the new log with.
TrimPreamble(old, truncate_at_block) ==
    [version |-> IF old.version < pruned_transaction_version
                 THEN genesis_state_or_chain_id_version ELSE max_supported_version,
     first_block_num |-> truncate_at_block,
     kind |-> "chain_id", val |-> chain_id(old)]

\* The loop of trim_blocklog_front over the new file f, the cursor on the
\* trailing position of entry i (0: at begin_position): each value found is
\* lowered by nbytes_to_trim, written back and handed to the index writer;
\* the cursor then moves to the 8 bytes before the lowered position.  idx is
\* what was handed to the writer so far, in block order.
RECURSIVE ShiftPositions(_, _, _, _)
ShiftPositions(f, i, nbytes_to_trim, idx) ==
    IF i = 0 THEN [ok |-> TRUE, log |-> f, idx |-> idx]
    ELSE LET new_pos == f.entries[i].bp - nbytes_to_trim
             g == [f EXCEPT !.entries[i].bp = new_pos]
             j == EntryIndexAt(g, new_pos)
         IN IF j = 0 THEN [ok |-> FALSE, log |-> g, idx |-> << new_pos >> \o idx]
            ELSE ShiftPositions(g, j - 1, nbytes_to_trim, << new_pos >> \o idx)

\* index_writer: a zero-filled file of blocks_expected slots, filled from its
\* end; a write before its start is outside the mapping.
IndexWritten(blocks_expected, idx) ==
    IF Len(idx) > blocks_expected THEN [ok |-> FALSE, idx |-> <<>>]
    ELSE [ok |-> TRUE,
          idx |-> [k \in 1..blocks_expected |->
                      IF k > blocks_expected - Len(idx)
                      THEN idx[k - (blocks_expected - Len(idx))] ELSE 0]]

\* block_log::trim_blocklog_front(block_dir, temp_dir, truncate_at_block) with
\* temp_dir another directory than block_dir; count is 1 for true and 0 for
\* false.  The new log is the new preamble followed by the bytes of the old
\* one from first_kept_block_pos on; the old files end up in temp_dir.
trim_blocklog_front(w, truncate_at_block) ==
    LET old == read_from(w.blog.pre).p
        num_blocks_to_truncate == truncate_at_block - old.first_block_num
        first_kept_block_pos == w.bindex[num_blocks_to_truncate + 1]
        nbytes_to_trim == first_kept_block_pos - nbytes_with_chain_id
        kept == EntryIndexAt(w.blog, first_kept_block_pos)
        copied == [pre |-> write_to(TrimPreamble(old, truncate_at_block)),
                   entries |-> SubSeq(w.blog.entries, kept, Len(w.blog.entries)),
                   tail |-> w.blog.tail]
        walk == ShiftPositions(copied, Len(copied.entries), nbytes_to_trim, <<>>)
        index == IndexWritten(Len(w.bindex) - num_blocks_to_truncate, walk.idx)
    IN IF ~ArchiveOpens(w) THEN Throw(w, "archive")
       ELSE IF truncate_at_block <= old.first_block_num THEN [w EXCEPT !.count = 0]
       ELSE IF truncate_at_block > last_block_num(w.blog).num THEN [w EXCEPT !.count = 0]
       ELSE IF kept = 0 \/ ~walk.ok \/ ~index.ok THEN Throw(w, "position")
       ELSE [w EXCEPT !.blog = walk.log, !.bindex = index.idx, !.count = 1]

\* -------------------------------------------------------------------- repair
\* The loop test block_num < truncate_at_block, after truncate_at_block = 0 was
\* replaced by UINT32_MAX, a number no block of a log reaches.
BelowLimit(block_num, truncate_at_block) ==
    truncate_at_block = 0 \/ block_num < truncate_at_block

\* full_validate_block_entry over an entry or over the interrupted entry at
\* the end of the log: "unpack" when it cannot be deserialized (thrown as
\* bad_block_excpetion), "position" when the 8 bytes after it are missing or
\* are not its own start (block_log_exception), "ok" when it returns.
full_validate_block_entry(version, e, pos, complete) ==
    IF version >= pruned_transaction_version /\ unpack(e).st # "ok" THEN "unpack"
    ELSE IF ~complete \/ e.bp # pos THEN "position"
    ELSE "ok"

\* The loop of repair_log from entry i on, block_num the number of the last
\* block validated: n entries passed, and why the loop ended.
RECURSIVE RepairWalk(_, _, _, _)
RepairWalk(f, i, block_num, truncate_at_block) ==
    IF ~BelowLimit(block_num, truncate_at_block) THEN [n |-> i - 1, stop |-> "ok"]
    ELSE IF i <= Len(f.entries)
    THEN LET v == full_validate_block_entry(FileVersion(f), f.entries[i], EntryStart(f, i), TRUE)
         IN IF v # "ok" THEN [n |-> i - 1, stop |-> v]
            ELSE RepairWalk(f, i + 1, f.entries[i].block.num, truncate_at_block)
    ELSE IF f.tail # <<>>
    THEN [n |-> i - 1,
          stop |-> full_validate_block_entry(FileVersion(f), f.tail[1], TailStart(f), FALSE)]
    ELSE [n |-> i - 1, stop |-> "ok"]

\* A faulty variant: the tail is spilled whatever stopped the walk.
Spilled_always(f, walk) ==
    IF walk.stop # "ok"
    THEN [written |-> TRUE, entries |-> SubSeq(f.entries, walk.n + 1, Len(f.entries)),
          tail |-> f.tail]
    ELSE NoTail

\* write_incomplete_block_data, reached through bad_block_excpetion alone.
Spilled(f, walk) ==
    IF walk.stop = "unpack"
    THEN [written |-> TRUE, entries |-> SubSeq(f.entries, walk.n + 1, Len(f.entries)),
          tail |-> f.tail]
    ELSE NoTail

\* block_log::repair_log(data_dir, truncate_at_block): the directory becomes
\* the backup and a new one is made; it throws when the backup log cannot be
\* opened, else the new directory holds the validated prefix as blocks.log
\* and, after a bad_block_excpetion, the rest of the log as the bad tail.
repair_log(w, truncate_at_block) ==
    LET rp == read_from(w.blog.pre)
        moved == [w EXCEPT !.backup_log = w.blog, !.bad_tail = NoTail,
                           !.blog = EmptyLog, !.bindex = <<>>,
                           !.seg_logs = EmptyDir, !.seg_idxs = EmptyIdxDir]
        walk == RepairWalk(w.blog, 1, rp.p.first_block_num - 1, truncate_at_block)
    IN IF ~rp.ok THEN Throw(moved, "open")
       ELSE [moved EXCEPT !.blog = [pre |-> w.blog.pre,
                                    entries |-> SubSeq(w.blog.entries, 1, walk.n),
                                    tail |-> <<>>],
                          !.bad_tail = Spilled(w.blog, walk),
                          !.err = walk.stop]

\* ---------------------------------------------------------------- key_value
\* sizeof of the element types a typed make_kv is instantiated with.
ElementSizes == {SizeU8, SizeU32, SizeU64}

\* What a copy that runs past the end of its source buffer does: it reads the
\* bytes that follow the buffer, or the process faults.
OverRead == {"read", "fault"}

\* make_bytes(data, length) over a buffer of buffer_bytes bytes: the bytes
\* object holds length bytes, own of them from the buffer.
make_bytes(buffer_bytes, length, over) ==
    IF length <= buffer_bytes THEN [st |-> "ok", length |-> length, own |-> length]
    ELSE IF over = "read" THEN [st |-> "ok", length |-> length, own |-> buffer_bytes]
    ELSE [st |-> "fault", length |-> 0, own |-> 0]

\* make_kv(const void*, size_t, const void*, size_t), with or without an
\* allocator: the lengths are byte counts.
make_kv_bytes(key_bytes, key_length, value_bytes, value_length, over) ==
    [key |-> make_bytes(key_bytes, key_length, over),
     value |-> make_bytes(value_bytes, value_length, over)]

\* The typed make_kv with an allocator, for arrays of key_length and
\* value_length elements of sizeof_key and sizeof_value bytes.
make_kv_allocator(key_length, sizeof_key, value_length, sizeof_value, over) ==
    make_kv_bytes(key_length * sizeof_key, key_length * sizeof_key,
                  value_length * sizeof_value, value_length * sizeof_value, over)

\* The typed make_kv without an allocator.
make_kv(key_length, sizeof_key, value_length, sizeof_value, over) ==
    make_kv_bytes(key_length * sizeof_key, key_length * sizeof_key,
                  value_length * sizeof_value, value_length * sizeof_key, over)

\* ----------------------------------------------------------------- actions
RetInit ==
    [op |-> "new", ok |-> TRUE, err |-> "", b |-> NoBlock, n |-> 0, pos |-> 0,
     prev |-> "", rb |-> NoBlock, how |-> "", log |-> <<>>]

Members(w) == << w.blog, w.bindex, w.seg_logs, w.seg_idxs, w.arch_logs, w.arch_idxs,
                 w.catalog, w.head, w.preamble, w.genesis_written >>

\* Whether the handler left a file or a member changed.
Changed(w) == Members(w) # Members(World)

\* A call that threw is recorded by its kind and its error alone.
Ret(op, w, r) ==
    IF w.ok THEN [r EXCEPT !.op = op]
    ELSE [RetInit EXCEPT !.op = op, !.ok = FALSE, !.err = w.err]

HistInit ==
    [resets |-> 0, chain |-> 0, prunes |-> 0, downs |-> 0, crashes |-> 0, fail |-> FALSE,
     damaged |-> FALSE]

\* A fresh directory and a store constructed on it, for each choice of the
\* constructor's parameters and of the process-wide default version.
InitWith(strides, retained, archives, versions) ==
    /\ up = TRUE
    /\ stride \in strides
    /\ max_retained_files \in retained
    /\ archive_dir \in archives
    /\ default_version \in versions
    /\ blog = EmptyLog
    /\ bindex = <<>>
    /\ seg_logs = EmptyDir
    /\ seg_idxs = EmptyIdxDir
    /\ arch_logs = {}
    /\ arch_idxs = {}
    /\ catalog = EmptyCatalog
    /\ head = NoBlock
    /\ preamble = DefaultPreamble
    /\ genesis_written_to_block_log = FALSE
    /\ backup_log = EmptyLog
    /\ bad_tail = NoTail
    /\ ret = RetInit
    /\ applog = <<>>
    /\ hist = HistInit

Params == << stride, max_retained_files, archive_dir, default_version >>

\* The files and members a handler left, whether it returned or threw.
Apply(w) ==
    /\ blog' = w.blog
    /\ bindex' = w.bindex
    /\ seg_logs' = w.seg_logs
    /\ seg_idxs' = w.seg_idxs
    /\ arch_logs' = w.arch_logs
    /\ arch_idxs' = w.arch_idxs
    /\ catalog' = w.catalog
    /\ head' = w.head
    /\ preamble' = w.preamble
    /\ genesis_written_to_block_log' = w.genesis_written
    /\ backup_log' = w.backup_log
    /\ bad_tail' = w.bad_tail
    /\ UNCHANGED Params

\* fail: some call threw and left a file or a member changed.
Failed(h, w) == [h EXCEPT !.fail = h.fail \/ (~w.ok /\ Changed(w))]

\* block_log::reset(genesis_state, first_block).
Reset(g, b) ==
    /\ up
    /\ hist.resets < MaxResets
    /\ LET w == reset_genesis(World, g, b) IN
       /\ Apply(w)
       /\ up' = (w.err # "rename")
       /\ ret' = Ret("reset", w, [RetInit EXCEPT !.pos = w.pos])
       /\ applog' = IF w.ok THEN << b >> ELSE <<>>
       /\ hist' = Failed([hist EXCEPT !.resets = @ + 1], w)

\* block_log::reset(chain_id, first_block_num).
ResetChain(cid, n) ==
    /\ up
    /\ hist.resets < MaxResets
    /\ LET w == reset_chain_id(World, cid, n) IN
       /\ Apply(w)
       /\ up' = up
       /\ ret' = Ret("reset_chain", w, RetInit)
       /\ applog' = IF w.ok THEN <<>> ELSE applog
       /\ hist' = IF w.ok \/ Changed(w)
                  THEN Failed([hist EXCEPT !.resets = @ + 1, !.chain = 1], w)
                  ELSE hist

\* block_log::append.
AppendBlock(b) ==
    /\ up
    /\ LET w == append(World, b) IN
       /\ Apply(w)
       /\ up' = (w.err # "rename")
       /\ ret' = Ret("append", w, [RetInit EXCEPT !.b = b, !.pos = w.pos, !.rb = head,
                                                   !.n = preamble.first_block_num])
       /\ applog' = IF w.ok THEN Append(applog, b) ELSE applog
       /\ hist' = Failed(hist, w)

\* What a read that left its mapping does next: it throws or the process dies.
AfterRead(st) == IF st = "ub" THEN BOOLEAN ELSE {TRUE}

Down(w) ==
    [w EXCEPT !.catalog = EmptyCatalog, !.head = NoBlock, !.preamble = DefaultPreamble,
              !.genesis_written = FALSE]

\* block_log::read_signed_block_by_num.
ReadBlock(n) ==
    /\ up
    /\ LET r == read_block_by_num(World, n) IN
       \E alive \in AfterRead(r.res.st) :
          /\ Apply(IF alive THEN [World EXCEPT !.catalog = r.cat] ELSE Down(World))
          /\ up' = alive
          /\ ret' = [RetInit EXCEPT !.op = "read", !.ok = (r.res.st \in {"ok", "none"})]
          /\ hist' = [hist EXCEPT !.fail = @ \/ ~alive]
          /\ UNCHANGED applog

\* block_log::read_block_id_by_num.
ReadBlockId(n) ==
    /\ up
    /\ LET r == read_block_id_by_num(World, n) IN
       \E alive \in AfterRead(r.res.st) :
          /\ Apply(IF alive THEN [World EXCEPT !.catalog = r.cat] ELSE Down(World))
          /\ up' = alive
          /\ ret' = [RetInit EXCEPT !.op = "read", !.ok = (r.res.st \in {"ok", "none"})]
          /\ hist' = [hist EXCEPT !.fail = @ \/ ~alive]
          /\ UNCHANGED applog

\* block_log::prune_transactions.
Prune(n, ids) ==
    /\ up
    /\ hist.prunes < MaxPrunes
    /\ LET w == prune_transactions(World, n, ids) IN
       /\ Apply(w)
       /\ up' = up
       /\ ret' = Ret("prune", w, [RetInit EXCEPT !.n = IF w.count > 0 THEN n ELSE 0,
                                                  !.pos = w.count])
       /\ hist' = IF (w.ok /\ w.count > 0) \/ Changed(w)
                  THEN Failed([hist EXCEPT !.prunes = @ + 1], w)
                  ELSE hist
       /\ UNCHANGED applog

\* block_log::~block_log.
Close ==
    /\ up
    /\ hist.downs < MaxDowns
    /\ Apply(Down(World))
    /\ up' = FALSE
    /\ ret' = [RetInit EXCEPT !.op = "close"]
    /\ hist' = [hist EXCEPT !.downs = @ + 1]
    /\ UNCHANGED applog

\* The process stops inside write_log_entry for block b.  cut: the log ends
\* between b's payload and its trailing position, whose place the last 8
\* bytes of the payload (tailv) then take; otherwise the entry is complete.
\* indexed: b's position reached blocks.index.
CrashFiles(w, b, cut, indexed, tailv) ==
    LET w1 == write_log_entry(w, b)
        e == Last(w1.blog.entries)
    IN [w EXCEPT !.blog = IF cut THEN [w.blog EXCEPT !.tail = << [e EXCEPT !.bp = tailv] >>]
                          ELSE w1.blog,
                 !.bindex = IF indexed THEN w1.bindex ELSE w.bindex]

CrashInAppend(b, cut, indexed, tailv) ==
    /\ up
    /\ hist.downs < MaxDowns
    /\ genesis_written_to_block_log
    /\ SizeU64 * Len(bindex) = ExpectedIndexSize(preamble, b.num)
    /\ cut \/ ~indexed
    /\ Apply(Down(CrashFiles(World, b, cut, indexed, tailv)))
    /\ up' = FALSE
    /\ ret' = [RetInit EXCEPT !.op = "crash", !.b = b, !.rb = head,
                              !.n = preamble.first_block_num,
                              !.err = IF cut THEN "cut" ELSE "full",
                              !.pos = IF indexed THEN 1 ELSE 0]
    /\ hist' = [hist EXCEPT !.downs = @ + 1, !.crashes = @ + 1]
    /\ UNCHANGED applog

\* The points of split_log at which the process may stop: after the two files
\* were closed, after catalog.add, after the first rename, after the second,
\* after the two files were opened anew and before the preamble is written.
SplitPoints == {"closed", "added", "log_renamed", "index_renamed", "truncated"}

\* The files split_log leaves when it stops at point at, w being the world
\* after write_log_entry.  A file that is absent and one that is empty are
\* the same content: the constructor creates the missing file empty.
SplitFiles(w, at) ==
    LET name == Name(w.preamble.first_block_num, w.head.num)
        w1 == add(w, w.preamble.first_block_num, w.head.num, name)
        w2 == [w1 EXCEPT !.seg_logs = (name :> w.blog) @@ w1.seg_logs, !.blog = EmptyLog]
        w3 == [w2 EXCEPT !.seg_idxs = (name :> w.bindex) @@ w2.seg_idxs, !.bindex = <<>>]
    IN CASE at = "closed" -> w
         [] at = "added" -> w1
         [] at = "log_renamed" -> w2
         [] OTHER -> w3

\* The process stops inside split_log, called by append(b), at point at.
CrashInSplit(b, at) ==
    /\ up
    /\ hist.downs < MaxDowns
    /\ genesis_written_to_block_log
    /\ SizeU64 * Len(bindex) = ExpectedIndexSize(preamble, b.num)
    /\ ShouldSplit(b.num)
    /\ at \in SplitPoints
    /\ LET w == [write_log_entry(World, b) EXCEPT !.head = b] IN
       /\ SplitFiles(w, at).ok
       /\ Apply(Down(SplitFiles(w, at)))
    /\ up' = FALSE
    /\ ret' = [RetInit EXCEPT !.op = "crash_split", !.b = b, !.rb = head,
                              !.n = preamble.first_block_num, !.err = at]
    /\ hist' = [hist EXCEPT !.downs = @ + 1, !.crashes = @ + 1]
    /\ applog' = Append(applog, b)

\* blocks.index loses its last 8 bytes while no store is open; log records
\* the blocks of blocks.log at that moment.
TruncateIndex ==
    /\ ~up
    /\ ret.op = "close"
    /\ bindex # <<>>
    /\ Apply([World EXCEPT !.bindex = SubSeq(bindex, 1, Len(bindex) - 1)])
    /\ up' = FALSE
    /\ ret' = [RetInit EXCEPT !.op = "truncate_index",
                              !.n = read_from(blog.pre).p.first_block_num,
                              !.log = [i \in 1..Len(blog.entries) |-> blog.entries[i].block]]
    /\ UNCHANGED << applog, hist >>

\* block_log::trim_blocklog_end(block_dir, n) while no store is open; log
\* records the blocks of blocks.log before the call.
TrimEnd(n, past) ==
    /\ ~up
    /\ ret.op = "close"
    /\ LET w == trim_blocklog_end(World, n, past) IN
       /\ Apply(w)
       /\ up' = FALSE
       /\ ret' = [RetInit EXCEPT !.op = "trim_end", !.ok = w.ok, !.err = w.err,
                                 !.n = n, !.pos = w.count,
                                 !.log = [i \in 1..Len(blog.entries) |-> blog.entries[i].block]]
    /\ UNCHANGED << applog, hist >>

\* block_log::trim_blocklog_front(block_dir, temp_dir, k) while no store is
\* open; log records the entries of blocks.log before the call.
TrimFront(k) ==
    /\ ~up
    /\ ret.op = "close"
    /\ LET w == trim_blocklog_front(World, k) IN
       /\ Apply(w)
       /\ up' = FALSE
       /\ ret' = [RetInit EXCEPT !.op = "trim_front", !.ok = w.ok, !.err = w.err,
                                 !.n = k, !.pos = w.count, !.log = blog.entries]
    /\ UNCHANGED << applog, hist >>

\* The compression byte of entry i of blocks.log is damaged while no store is
\* open (the byte exists from version 4 on).
Damage(i) ==
    /\ ~up
    /\ ret.op \in {"close", "crash"}
    /\ FileVersion(blog) >= pruned_transaction_version
    /\ i \in 1..Len(blog.entries)
    /\ Apply([World EXCEPT !.blog.entries[i].comp = 1])
    /\ up' = FALSE
    /\ ret' = [RetInit EXCEPT !.op = "damage", !.n = i]
    /\ UNCHANGED << applog, hist >>

\* The values a damaged size field of entry e may hold: 0, one less than the
\* header and the block take, one less than they take with the trailing
\* position, one less than was written.
DamagedSizes(e) ==
    {0,
     offset_to_block_start(max_supported_version) + pack_size(e.block) - 1,
     offset_to_block_start(max_supported_version) + pack_size(e.block) + SizeU64 - 1,
     e.size - 1}

\* The size field of entry i of blocks.log is overwritten with s while no
\* store is open (the field exists from version 4 on).
DamageSize(i, s) ==
    /\ ~up
    /\ ret.op = "close"
    /\ ~hist.damaged
    /\ FileVersion(blog) >= pruned_transaction_version
    /\ i \in 1..Len(blog.entries)
    /\ s \in DamagedSizes(blog.entries[i])
    /\ Apply([World EXCEPT !.blog.entries[i].size = s])
    /\ up' = FALSE
    /\ ret' = [RetInit EXCEPT !.op = "damage_size", !.n = i, !.pos = s]
    /\ hist' = [hist EXCEPT !.damaged = TRUE]
    /\ UNCHANGED applog

\* block_log::repair_log(data_dir, truncate_at_block) while no store is open;
\* how is why the walk ended and pos the number of entries kept.
Repair(truncate_at_block) ==
    /\ ~up
    /\ ret.op \in {"close", "crash", "damage"}
    /\ LET w == repair_log(World, truncate_at_block) IN
       /\ Apply(w)
       /\ up' = FALSE
       /\ ret' = [RetInit EXCEPT !.op = "repair", !.ok = w.ok,
                                 !.err = IF w.ok THEN "" ELSE w.err,
                                 !.how = IF w.ok THEN w.err ELSE "",
                                 !.n = truncate_at_block,
                                 !.pos = Len(w.blog.entries)]
    /\ UNCHANGED << applog, hist >>

\* The index files a directory may hold beside a log f when the store is
\* constructed: up to MaxBlockNum positions, each the start of an entry of f,
\* the end of its preamble or 0.
StalePositions(f) ==
    {0, first_block_position(f)} \cup {EntryStart(f, i) : i \in 1..Len(f.entries)}

StaleIndexes(f) == UNION {[1..n -> StalePositions(f)] : n \in 0..MaxBlockNum}

\* blocks.index is replaced by idx while no store is open.
StaleIndex(idx) ==
    /\ ~up
    /\ ret.op = "close"
    /\ idx # bindex
    /\ Apply([World EXCEPT !.bindex = idx])
    /\ up' = FALSE
    /\ ret' = [RetInit EXCEPT !.op = "stale_index", !.log = bindex]
    /\ UNCHANGED << applog, hist >>

\* The bytes of a preamble with the given version, first block number and
\* chain context, as a tool other than this store would lay them out: version 1
\* has no first block number and no totem.
PreambleFields(version, first_block_num, kind, val) ==
    IF version = initial_version
    THEN << Fld("u32", version), Fld(kind, val) >>
    ELSE << Fld("u32", version), Fld("u32", first_block_num), Fld(kind, val), Fld("u64", npos) >>

\* blocks.log is replaced by a file that holds such a preamble and no block,
\* and blocks.index by an empty file, while no store is open.
PlantPreamble(version, first_block_num, kind, val) ==
    /\ ~up
    /\ ret.op = "close"
    /\ Apply([World EXCEPT !.blog = [pre |-> PreambleFields(version, first_block_num, kind, val),
                                     entries |-> <<>>, tail |-> <<>>],
                           !.bindex = <<>>])
    /\ up' = FALSE
    /\ ret' = [RetInit EXCEPT !.op = "plant", !.n = version, !.pos = first_block_num]
    /\ UNCHANGED << applog, hist >>

\* block_log::construct_index(blocks.log, blocks.index) while no store is
\* open; log records the index file before the call.
BuildIndex ==
    /\ ~up
    /\ ret.op \in {"close", "truncate_index", "construct_index"}
    /\ ret.how # "again"
    /\ LET ci == construct_index(blog, bindex) IN
       /\ Apply([World EXCEPT !.bindex = ci.idx])
       /\ up' = FALSE
       /\ ret' = [RetInit EXCEPT !.op = "construct_index", !.ok = (ci.st = "ok"),
                                 !.how = IF ret.op = "construct_index" THEN "again" ELSE "",
                                 !.log = bindex]
    /\ UNCHANGED << applog, hist >>

\* block_log::block_log on the directory as it is.
Reopen ==
    /\ ~up
    /\ ret.op # "reopen"
    /\ LET w == construct(World) IN
       /\ Apply(IF w.ok THEN w ELSE Down(w))
       /\ up' = w.ok
       /\ ret' = [RetInit EXCEPT !.op = "reopen", !.ok = w.ok, !.err = w.err,
                                 !.prev = ret.op, !.b = ret.b, !.rb = ret.rb,
                                 !.n = ret.n, !.pos = ret.pos, !.how = ret.err,
                                 !.log = ret.log]
       /\ hist' = [hist EXCEPT !.fail = @ \/ ~w.ok]
       /\ UNCHANGED applog

\* A typed make_kv call; n and pos are the byte counts of the key and of the
\* value returned, log the arguments.
MakeKv(allocator, key_length, sizeof_key, value_length, sizeof_value, over) ==
    /\ LET kv == IF allocator
                 THEN make_kv_allocator(key_length, sizeof_key, value_length, sizeof_value, over)
                 ELSE make_kv(key_length, sizeof_key, value_length, sizeof_value, over)
       IN ret' = [RetInit EXCEPT !.op = "make_kv",
                                 !.ok = (kv.key.st = "ok" /\ kv.value.st = "ok"),
                                 !.how = IF allocator THEN "allocator" ELSE "",
                                 !.n = kv.key.length,
                                 !.pos = kv.value.length,
                                 !.log = << key_length, sizeof_key, value_length, sizeof_value >>]
    /\ Apply(World)
    /\ UNCHANGED << up, applog, hist >>

\* The store in use: resets, appends and reads.
NextOps ==
    \/ \E b \in Blocks : Reset(1, b)
    \/ \E cid \in ChainIds, n \in BlockNums : ResetChain(cid, n)
    \/ \E b \in Blocks : AppendBlock(b)
    \/ \E n \in BlockNums : ReadBlock(n)
    \/ \E n \in BlockNums : ReadBlockId(n)

Spec ==
    InitWith(1..MaxStride, 0..MaxRetained, {FALSE}, {max_supported_version})
    /\ [][NextOps]_vars

\* The store in use with pruning: what follows the first reset.
NextPrune ==
    \/ \E b \in Blocks : hist.resets = 0 /\ Reset(1, b)
    \/ \E cid \in ChainIds, n \in BlockNums : hist.resets = 0 /\ ResetChain(cid, n)
    \/ \E b \in Blocks : AppendBlock(b)
    \/ \E n \in BlockNums : ReadBlock(n)
    \/ \E n \in BlockNums, ids \in (SUBSET (1..(NumTrx + 1))) \ {{}} : Prune(n, ids)

SpecPrune ==
    InitWith(1..MaxStride, 0..MaxRetained, {FALSE}, {max_supported_version})
    /\ [][NextPrune]_vars

\* The store stopped and constructed again over the files it left.
NextRestart ==
    \/ \E b \in Blocks : b.tag = 0 /\ Reset(1, b)
    \/ \E b \in Blocks : AppendBlock(b)
    \/ \E n \in BlockNums : ReadBlock(n)
    \/ Close
    \/ \E b \in Blocks, cut \in BOOLEAN, indexed \in BOOLEAN, tailv \in {0, PayloadTailValue} :
          CrashInAppend(b, cut, indexed, tailv)
    \/ TruncateIndex
    \/ Reopen

SpecRestart ==
    InitWith(1..MaxStride, {MaxRetained}, {FALSE},
             {genesis_state_or_chain_id_version, max_supported_version})
    /\ [][NextRestart]_vars

\* The store in use with or without an archive directory.
NextArchive ==
    \/ \E b \in Blocks : b.tag = 0 /\ Reset(1, b)
    \/ \E cid \in ChainIds, n \in BlockNums : ResetChain(cid, n)
    \/ \E b \in Blocks : AppendBlock(b)
    \/ \E n \in BlockNums : ReadBlock(n)

SpecArchive ==
    InitWith(1..(MaxStride - 1), 0..MaxRetained, BOOLEAN, {max_supported_version})
    /\ [][NextArchive]_vars

\* The store in use under each default version block_log::set_version allows.
NextVersions ==
    \/ \E b \in Blocks : b.tag = 0 /\ hist.resets = 0 /\ Reset(1, b)
    \/ \E cid \in ChainIds, n \in 0..MaxBlockNum : ResetChain(cid, n)
    \/ \E b \in Blocks : AppendBlock(b)
    \/ \E n \in BlockNums, ids \in (SUBSET (1..(NumTrx + 1))) \ {{}} : Prune(n, ids)

SpecVersions ==
    InitWith(1..(MaxStride - 1), {MaxRetained}, {FALSE},
             min_supported_version..max_supported_version)
    /\ [][NextVersions]_vars

\* The store closed, its live log trimmed, the store constructed again.
NextTrim ==
    \/ \E b \in Blocks : b.tag = 0 /\ hist.resets = 0 /\ Reset(1, b)
    \/ \E cid \in ChainIds, n \in BlockNums : hist.resets = 0 /\ ResetChain(cid, n)
    \/ \E b \in Blocks : AppendBlock(b)
    \/ \E n \in BlockNums : ReadBlock(n)
    \/ Close
    \/ \E n \in BlockNums, past \in PastIndex : TrimEnd(n, past)
    \/ Reopen

SpecTrim ==
    InitWith(2..MaxStride, {MaxRetained}, {FALSE},
             {genesis_state_or_chain_id_version, max_supported_version})
    /\ [][NextTrim]_vars

\* The store closed, the front of its live log trimmed, the store constructed
\* again, for logs of every version and with pruned entries.
NextTrimFront ==
    \/ \E b \in Blocks : b.tag = 0 /\ hist.resets = 0 /\ Reset(1, b)
    \/ \E cid \in ChainIds, n \in BlockNums : hist.resets = 0 /\ ResetChain(cid, n)
    \/ \E b \in Blocks : AppendBlock(b)
    \/ \E n \in BlockNums, ids \in (SUBSET Trx) \ {{}} : Prune(n, ids)
    \/ \E n \in BlockNums : ReadBlock(n)
    \/ Close
    \/ \E k \in 0..(MaxBlockNum + 1) : TrimFront(k)
    \/ Reopen

SpecTrimFront ==
    InitWith({MaxStride, MaxStride + 1}, {MaxRetained}, {FALSE},
             min_supported_version..max_supported_version)
    /\ [][NextTrimFront]_vars

\* The store stopped or interrupted, its log possibly damaged, repaired and
\* the store constructed again.
NextRepair ==
    \/ \E b \in Blocks : b.tag = 0 /\ hist.resets = 0 /\ Reset(1, b)
    \/ \E cid \in ChainIds, n \in BlockNums : hist.resets = 0 /\ ResetChain(cid, n)
    \/ \E b \in Blocks : AppendBlock(b)
    \/ Close
    \/ \E b \in Blocks, cut \in BOOLEAN, indexed \in BOOLEAN, tailv \in {0, PayloadTailValue} :
          CrashInAppend(b, cut, indexed, tailv)
    \/ \E i \in 1..MaxBlockNum : Damage(i)
    \/ \E t \in 0..MaxBlockNum : Repair(t)
    \/ Reopen

SpecRepair ==
    InitWith(2..MaxStride, {MaxRetained}, {FALSE},
             {genesis_state_or_chain_id_version, max_supported_version})
    /\ [][NextRepair]_vars

\* The store stopped, its index rebuilt by construct_index from logs of every
\* version, pruned or not, with the old index whole or cut short.
NextIndex ==
    \/ \E b \in Blocks : b.tag = 0 /\ hist.resets = 0 /\ Reset(1, b)
    \/ \E cid \in ChainIds, n \in BlockNums : hist.resets = 0 /\ ResetChain(cid, n)
    \/ \E b \in Blocks : AppendBlock(b)
    \/ \E n \in BlockNums, ids \in (SUBSET Trx) \ {{}} : Prune(n, ids)
    \/ Close
    \/ TruncateIndex
    \/ BuildIndex
    \/ Reopen

SpecIndex ==
    InitWith({MaxStride, MaxStride + 1}, {MaxRetained}, {FALSE},
             min_supported_version..max_supported_version)
    /\ [][NextIndex]_vars

\* The store constructed over each combination of a log it wrote (empty,
\* preamble only, or holding blocks) and an index file of any content.
NextStale ==
    \/ \E b \in Blocks : b.tag = 0 /\ hist.resets = 0 /\ Reset(1, b)
    \/ \E cid \in ChainIds, n \in BlockNums : hist.resets = 0 /\ ResetChain(cid, n)
    \/ \E b \in Blocks : b.tag = 0 /\ AppendBlock(b)
    \/ Close
    \/ \E idx \in StaleIndexes(blog) : StaleIndex(idx)
    \/ Reopen

SpecStale ==
    InitWith({MaxStride, MaxStride + 1}, {MaxRetained}, {FALSE},
             {genesis_state_or_chain_id_version, max_supported_version})
    /\ [][NextStale]_vars

\* The store in use on version 4 logs with pruning, stopped, a size field
\* possibly damaged, the store constructed again and read.
NextEntry ==
    \/ \E b \in Blocks : b.tag = 0 /\ hist.resets = 0 /\ Reset(1, b)
    \/ \E cid \in ChainIds, n \in BlockNums : hist.resets = 0 /\ ResetChain(cid, n)
    \/ \E b \in Blocks : AppendBlock(b)
    \/ \E n \in BlockNums, ids \in (SUBSET Trx) \ {{}} : Prune(n, ids)
    \/ \E n \in BlockNums : ReadBlock(n)
    \/ Close
    \/ \E i \in 1..MaxBlockNum, s \in 0..(pack(NewBlock(1, 0)).size) : DamageSize(i, s)
    \/ Reopen

SpecEntry ==
    InitWith({MaxStride - 1, MaxStride + 1}, {MaxRetained}, {FALSE}, {max_supported_version})
    /\ [][NextEntry]_vars

\* The store constructed over a log that holds a preamble of any version,
\* first block number and chain context.
NextPreamble ==
    \/ \E b \in Blocks : b.tag = 0 /\ hist.resets = 0 /\ Reset(1, b)
    \/ \E cid \in ChainIds, n \in BlockNums : hist.resets = 0 /\ ResetChain(cid, n)
    \/ \E b \in Blocks : b.tag = 0 /\ AppendBlock(b)
    \/ Close
    \/ \E version \in min_supported_version..max_supported_version,
          first_block_num \in 0..(MaxBlockNum + 1), kind \in {"genesis", "chain_id"},
          val \in ChainIds \cup GenesisStates :
          /\ (kind = "genesis") = (val \in GenesisStates)
          /\ PlantPreamble(version, first_block_num, kind, val)
    \/ Reopen

SpecPreamble ==
    InitWith({MaxStride + 1}, {MaxRetained}, {FALSE},
             min_supported_version..max_supported_version)
    /\ [][NextPreamble]_vars

\* The store interrupted inside a rotation and constructed again.
NextSplitCrash ==
    \/ \E b \in Blocks : b.tag = 0 /\ hist.resets = 0 /\ Reset(1, b)
    \/ \E cid \in ChainIds, n \in BlockNums : hist.resets = 0 /\ ResetChain(cid, n)
    \/ \E b \in Blocks : AppendBlock(b)
    \/ \E n \in BlockNums : ReadBlock(n)
    \/ \E b \in Blocks, at \in SplitPoints : CrashInSplit(b, at)
    \/ Reopen

SpecSplitCrash ==
    InitWith(1..MaxStride, {MaxRetained}, {FALSE},
             {genesis_state_or_chain_id_version, max_supported_version})
    /\ [][NextSplitCrash]_vars

\* Typed make_kv calls over arrays of up to MaxKvLength elements.
NextKv ==
    \E allocator \in BOOLEAN, key_length \in 0..MaxKvLength, value_length \in 0..MaxKvLength,
       sizeof_key \in ElementSizes, sizeof_value \in ElementSizes, over \in OverRead :
        MakeKv(allocator, key_length, sizeof_key, value_length, sizeof_value, over)

SpecKv ==
    InitWith({MaxStride}, {MaxRetained}, {FALSE}, {max_supported_version})
    /\ [][NextKv]_vars

\* ------------------------------------------------------------------ claims
IdOk(b) == [st |-> "ok", id |-> calculate_id(b)]

\* C1: immediately after append(b) returns normally, rotation or not, for every
\* stride and every number of retained files, head() is b,
\* read_signed_block_by_num(b.num) returns a block whose id is b's and
\* read_block_id_by_num(b.num) is b's id.
C1_AppendedBlockIsReadable ==
    (up /\ ret.op = "append" /\ ret.ok) =>
        /\ head = ret.b
        /\ read_block_by_num(World, ret.b.num).res.st = "ok"
        /\ calculate_id(read_block_by_num(World, ret.b.num).res.block) = calculate_id(ret.b)
        /\ read_block_id_by_num(World, ret.b.num).res = IdOk(ret.b)

\* One reset that returned, then appends and reads only.
OneResetThenAppends ==
    /\ up
    /\ hist.resets = 1
    /\ hist.chain = 0
    /\ hist.prunes = 0
    /\ ~hist.fail
    /\ applog # <<>>

\* C2 as stated: in a sequence of one reset followed by appends, every block
\* appended so far is returned by read_signed_block_by_num at every later point.
C2_EveryAppendedBlockReadable ==
    OneResetThenAppends =>
        \A i \in 1..Len(applog) :
            read_block_by_num(World, applog[i].num).res = ReadOk(applog[i])

\* The segment a block number falls in when the log started at block 1, and
\* the number of segments rotated so far.
SegmentOf(n) == (n + stride - 1) \div stride
RotatedSoFar == head.num \div stride
StillHeld(n) == SegmentOf(n) > RotatedSoFar \/ RotatedSoFar - SegmentOf(n) < max_retained_files

\* C2 amended: every appended block that is in the live log or in one of the
\* last max_retained_files rotated segments is returned by
\* read_signed_block_by_num at every later point; for the others it returns
\* nothing.
C2_HeldBlocksReadable ==
    OneResetThenAppends =>
        \A i \in 1..Len(applog) :
            read_block_by_num(World, applog[i].num).res =
                IF StillHeld(applog[i].num) THEN ReadOk(applog[i]) ELSE ReadNone

\* A block rotated out of the live log is read back from its segment while an
\* older one has been evicted.
C2_Witness ==
    /\ OneResetThenAppends
    /\ Len(applog) = MaxBlockNum
    /\ ~StillHeld(applog[1].num)
    /\ StillHeld(applog[2].num)
    /\ applog[2].num < preamble.first_block_num
    /\ ret.op = "read"

\* The store was constructed again after the process stopped inside append(b):
\* ret.b is b, ret.rb the head and ret.n the first block number before it.
ReopenedAfterCrash == ret.op = "reopen" /\ ret.prev = "crash"

StateAfterAppend ==
    /\ head = ret.b
    /\ read_block_by_num(World, ret.b.num).res = ReadOk(ret.b)
    /\ Len(bindex) = ret.b.num - ret.n + 1
    /\ Len(blog.entries) = Len(bindex)
    /\ blog.tail = <<>>

StateBeforeAppend ==
    /\ head = ret.rb \/ (head = NoBlock /\ blog.entries = <<>>)
    /\ Len(bindex) = ret.b.num - ret.n
    /\ Len(blog.entries) = Len(bindex)
    /\ blog.tail = <<>>

\* C3: when the process stops during append(b) with the log cut between b's
\* payload and its trailing position, or with b's entry complete and the index
\* lacking b's position, constructing the store again succeeds and yields the
\* state after append(b) or the state before it, never a log and an index
\* that disagree.
C3_ReopenAfterCrashIsAtomic ==
    ReopenedAfterCrash => (ret.ok /\ up /\ (StateAfterAppend \/ StateBeforeAppend))

\* C4: when blocks.index has lost its last entry while blocks.log is intact and
\* holds at least two blocks, constructing the store again rebuilds the index
\* and every block that was in the log, the last one included, is read back.
C4_TruncatedIndexIsRebuilt ==
    (ret.op = "reopen" /\ ret.prev = "truncate_index" /\ Len(ret.log) >= 2) =>
        /\ ret.ok
        /\ up
        /\ Len(bindex) = Len(ret.log)
        /\ \A i \in 1..Len(ret.log) :
              read_block_by_num(World, ret.log[i].num).res = ReadOk(ret.log[i])

\* Every call so far returned, or threw and left nothing changed.
AllReturned == up /\ ~hist.fail

\* C5: after any sequence of reset, append (rotating or not) and
\* prune_transactions calls that each returned, the live index holds one entry
\* per block of the live log, its i-th entry is the starting offset of the
\* entry of block first_block_num + i (the value append returned for it), and
\* its last entry equals the position stored in the last 8 bytes of the log.
C5_IndexMatchesLog ==
    AllReturned =>
        /\ Len(bindex) = Len(blog.entries)
        /\ num_blocks(blog) = [ok |-> TRUE, n |-> Len(bindex)]
        /\ \A i \in 1..Len(bindex) :
              /\ bindex[i] = EntryStart(blog, i)
              /\ blog.entries[i].block.num = preamble.first_block_num + i - 1
        /\ blog.entries # <<>> => Last(bindex) = last_block_position(blog)
        /\ (ret.op = "append" /\ ret.ok) =>
              IF ret.b.num % stride = 0
              THEN /\ bindex = <<>>
                   /\ Last(seg_idxs[Name(ret.n, ret.b.num)]) = ret.pos
              ELSE Last(bindex) = ret.pos

C5_Witness ==
    /\ AllReturned
    /\ ret.op = "append"
    /\ ret.ok
    /\ Len(bindex) >= 2
    /\ hist.prunes >= 1
    /\ blog.entries[1].block.cfd = {}

\* Each entry of the file ends with its own starting offset, found for
\* version 4 at offset + size - 8.
EntriesPointBack(f) ==
    \A i \in 1..Len(f.entries) :
        /\ f.entries[i].bp = EntryStart(f, i)
        /\ FileVersion(f) >= pruned_transaction_version =>
              U64At(f, EntryStart(f, i) + f.entries[i].size - SizeU64) = EntryStart(f, i)

\* C6: in the live log and in every rotated segment that a sequence of reset,
\* append, rotation and prune_transactions produced, each entry that starts at
\* pos ends with an 8-byte position equal to pos.
C6_EntriesEndWithOwnPosition ==
    /\ EntriesPointBack(blog)
    /\ \A nm \in DOMAIN seg_logs : EntriesPointBack(seg_logs[nm])

C6_Witness ==
    /\ blog.entries # <<>>
    /\ \E nm \in DOMAIN seg_logs :
          /\ Len(seg_logs[nm].entries) >= 2
          /\ \E i \in 1..Len(seg_logs[nm].entries) : seg_logs[nm].entries[i].block.cfd = {}

\* Reopened over a version 4 log whose last block b is complete in blocks.log
\* and missing from a non-empty blocks.index.
ReopenedWithUnindexedHead ==
    /\ ReopenedAfterCrash
    /\ ret.how = "full"
    /\ ret.pos = 0
    /\ FileVersion(blog) >= pruned_transaction_version
    /\ ret.b.num > ret.n

C8_AppendRequiresNextNumber ==
    [][\A b \in Blocks :
          (up /\ genesis_written_to_block_log /\ AppendBlock(b)) =>
              /\ (SizeU64 * (b.num - preamble.first_block_num) # SizeU64 * Len(bindex)) =>
                    /\ ~ret'.ok
                    /\ ret'.err = "IndexDesync"
                    /\ blog' = blog
                    /\ bindex' = bindex
                    /\ head' = head
              /\ ret'.ok => b.num = preamble.first_block_num + Len(bindex)]_vars

C8_Witness ==
    /\ ret.op = "append"
    /\ ~ret.ok
    /\ ret.err = "IndexDesync"
    /\ Len(bindex) >= 1
    /\ preamble.first_block_num > 1

\* C9: append on a store whose live log was empty at construction and on which
\* no reset was called throws AppendBeforeReset and leaves log, index and head
\* unchanged; after a reset, or after construction on a non-empty log, append
\* is never rejected for that reason.
C9_AppendBeforeReset ==
    [][\A b \in Blocks :
          (up /\ AppendBlock(b)) =>
              IF hist.resets = 0 /\ FileSize(blog) = 0
              THEN /\ ~ret'.ok
                   /\ ret'.err = "AppendBeforeReset"
                   /\ blog' = blog
                   /\ bindex' = bindex
                   /\ head' = head
              ELSE ret'.err # "AppendBeforeReset"]_vars

C9_Witness ==
    /\ ret.op = "append"
    /\ ret.err = "AppendBeforeReset"
    /\ hist.downs = 1
    /\ FileSize(blog) = 0

\* The file holds what f held and, after it, the entry of b starting at pos.
HoldsWithEntry(file, f, b, pos) ==
    /\ file.pre = f.pre
    /\ file.tail = <<>>
    /\ Len(file.entries) = Len(f.entries) + 1
    /\ SubSeq(file.entries, 1, Len(f.entries)) = f.entries
    /\ Last(file.entries).block = b
    /\ Last(file.entries).bp = pos
    /\ EntryStart(file, Len(file.entries)) = pos

\* C10: whenever append(b) returns with b.num % stride = 0, the files
\* blocks-F-b.num.log and .index (F the live first block number before the
\* append) hold the live log and index as they were after writing b, the new
\* live log is only a version 4 preamble with first_block_num = b.num + 1 and
\* the same chain id in its chain-id form, and the live index is empty; when
\* b.num % stride # 0 nothing is rotated.
C10_RotationOnStride ==
    [][(up /\ ret'.op = "append" /\ ret'.ok) =>
          LET b == ret'.b
              pos == FileSize(blog)
              nm == Name(preamble.first_block_num, b.num)
          IN IF b.num % stride = 0
             THEN /\ nm \in DOMAIN seg_logs'
                  /\ nm \in DOMAIN seg_idxs'
                  /\ HoldsWithEntry(seg_logs'[nm], blog, b, pos)
                  /\ seg_idxs'[nm] = Append(bindex, pos)
                  /\ blog'.entries = <<>>
                  /\ blog'.tail = <<>>
                  /\ FileSize(blog') = nbytes_with_chain_id
                  /\ read_from(blog'.pre) =
                        [ok |-> TRUE,
                         p |-> [version |-> max_supported_version,
                                first_block_num |-> b.num + 1,
                                kind |-> "chain_id", val |-> chain_id(preamble)]]
                  /\ bindex' = <<>>
             ELSE /\ seg_logs' = seg_logs
                  /\ seg_idxs' = seg_idxs
                  /\ catalog' = catalog
                  /\ preamble' = preamble
                  /\ HoldsWithEntry(blog', blog, b, pos)
                  /\ bindex' = Append(bindex, pos)]_vars

C10_Witness ==
    /\ ret.op = "append"
    /\ ret.ok
    /\ ret.b.num % stride = 0
    /\ Name(ret.n, ret.b.num) \in DOMAIN seg_logs
    /\ Len(seg_logs[Name(ret.n, ret.b.num)].entries) >= 2
    /\ preamble.first_block_num = ret.b.num + 1
    /\ blog.entries = <<>>

\* The segments of a collection, and the rotation an append that returned did.
Items(c) == {c[i] : i \in 1..Len(c)}
Rotated == up /\ ret'.op = "append" /\ ret'.ok /\ ret'.b.num % stride = 0
NewSegment ==
    [first |-> preamble.first_block_num, last |-> ret'.b.num,
     name |-> Name(preamble.first_block_num, ret'.b.num)]
Evicted == Items(catalog.collection) \ Items(catalog'.collection)
IsPrefix(S, c) == \E j \in 0..Len(c) : S = {c[i] : i \in 1..j}
Archived(e) == e.name \in arch_logs' /\ e.name \in arch_idxs'
Deleted(e) == e.name \notin DOMAIN seg_logs' /\ e.name \notin DOMAIN seg_idxs'

\* C11: after every rotation the catalog holds at most
\* max_retained_files segments, those with the highest first block numbers of
\* the ones cataloged before and the new one; the evicted segments are the
\* lowest-numbered prefix and their files are gone from data_dir without an
\* archive directory and present under it otherwise.
C11_RetainedAreHighest ==
    [][Rotated =>
          LET all == Items(catalog.collection) \cup {NewSegment}
              kept == Items(catalog'.collection)
          IN /\ Len(catalog'.collection) <= max_retained_files
             /\ kept \subseteq all
             /\ \A k \in kept : \A e \in all \ kept : e.first < k.first
             /\ IsPrefix(Evicted, catalog.collection)
             /\ \A e \in Evicted : IF archive_dir THEN Archived(e) ELSE Deleted(e)]_vars

\* stride 1, one retained file, no archive directory: reset(G, B1),
\* append(B2), append(B3) and reads.
EvictionScenario ==
    /\ stride = 1
    /\ max_retained_files = 1
    /\ ~archive_dir
    /\ OneResetThenAppends
    /\ [i \in 1..Len(applog) |-> applog[i].num] = << 1, 2, 3 >>

SegmentFiles(nm) == nm \in DOMAIN seg_logs /\ nm \in DOMAIN seg_idxs
NoSegmentFiles(nm) == nm \notin DOMAIN seg_logs /\ nm \notin DOMAIN seg_idxs

\* C12 as stated: after the scenario blocks-1-1.log/.index are gone,
\* blocks-2-2.log/.index exist and read_signed_block_by_num(1) returns nothing.
C12_SecondSegmentRemains ==
    EvictionScenario =>
        /\ NoSegmentFiles(Name(1, 1))
        /\ SegmentFiles(Name(2, 2))
        /\ read_block_by_num(World, 1).res = ReadNone

\* C12 amended: append(B3) rotates too, so after the scenario blocks-1-1 and
\* blocks-2-2 are both gone, blocks-3-3.log/.index exist, blocks 1 and 2 read
\* as nothing and block 3 is read from its segment.
C12_OnlyLastSegmentRemains ==
    EvictionScenario =>
        /\ NoSegmentFiles(Name(1, 1))
        /\ NoSegmentFiles(Name(2, 2))
        /\ SegmentFiles(Name(3, 3))
        /\ blog.entries = <<>>
        /\ read_block_by_num(World, 1).res = ReadNone
        /\ read_block_by_num(World, 2).res = ReadNone
        /\ read_block_by_num(World, 3).res = ReadOk(applog[3])

C12_Witness ==
    /\ EvictionScenario
    /\ ret.op = "append"
    /\ ret.b.num = 3
    /\ DOMAIN seg_logs = {Name(3, 3)}

\* The chain id a log file carries in its preamble.
FileChainId(f) == chain_id(read_from(f.pre).p)

\* C13: whenever every call so far returned, the chain id of the live log's
\* preamble equals the chain id of every segment registered in the catalog.
C13_OneChainId ==
    (AllReturned /\ genesis_written_to_block_log) =>
        \A i \in 1..Len(catalog.collection) :
            catalog.collection[i].name \in DOMAIN seg_logs =>
                FileChainId(seg_logs[catalog.collection[i].name]) = FileChainId(blog)

\* reset(chain_id, first_block_num) was called on a store in use.
ResetChainCalled(cid, n) == up /\ ResetChain(cid, n)
MustFail(cid, n) == n <= 1 \/ (catalog.chain_id # EmptyChainId /\ catalog.chain_id # cid)

\* The live log is a preamble with the ChainId variant alone, the index empty.
FreshChainLog(cid, n) ==
    /\ blog'.entries = <<>>
    /\ blog'.tail = <<>>
    /\ bindex' = <<>>
    /\ read_from(blog'.pre).ok
    /\ read_from(blog'.pre).p.kind = "chain_id"
    /\ read_from(blog'.pre).p.val = cid
    /\ read_from(blog'.pre).p.first_block_num = n
    /\ preamble'.kind = "chain_id"
    /\ preamble'.val = cid
    /\ preamble'.first_block_num = n
    /\ head' = NoBlock

\* What append would do in the state the call leaves.
WorldAfter ==
    [World EXCEPT !.blog = blog', !.bindex = bindex', !.seg_logs = seg_logs',
                  !.seg_idxs = seg_idxs', !.arch_logs = arch_logs',
                  !.arch_idxs = arch_idxs', !.catalog = catalog', !.head = head',
                  !.preamble = preamble',
                  !.genesis_written = genesis_written_to_block_log']

\* C14: reset(chain_id, first_block_num) fails and leaves log, index, head and
\* preamble unchanged when first_block_num <= 1 or the catalog's chain id is
\* set and differs; otherwise it leaves an empty live log and index under a
\* preamble of the ChainId variant with the given first block number, no
\* head, and the next append is accepted exactly for block first_block_num.
C14_ResetChainId ==
    [][\A cid \in ChainIds, n \in 0..MaxBlockNum :
          ResetChainCalled(cid, n) =>
              IF MustFail(cid, n)
              THEN /\ ~ret'.ok
                   /\ blog' = blog
                   /\ bindex' = bindex
                   /\ head' = head
                   /\ preamble' = preamble
              ELSE /\ ret'.ok
                   /\ FreshChainLog(cid, n)
                   /\ \A b \in Blocks : append(WorldAfter, b).ok <=> b.num = n]_vars

\* C15: after reset(genesis, first_block) returns normally, whatever the
\* store held before, head() is first_block and first_block_num() is 1.
C15_ResetGenesis ==
    (up /\ ret.op = "reset" /\ ret.ok) =>
        /\ applog # <<>>
        /\ head = applog[1]
        /\ block_log_first_block_num(World) = 1

\* Where block number n is held: the live log's range, the cataloged segments
\* whose range contains it.
InLiveRange(n) == head # NoBlock /\ preamble.first_block_num <= n /\ n <= head.num
SegmentsWith(n) ==
    {i \in 1..Len(catalog.collection) :
        catalog.collection[i].first <= n /\ n <= catalog.collection[i].last}
BlocksOf(f) == {f.entries[i].block : i \in 1..Len(f.entries)}
ReadRes(n) == read_block_by_num(World, n).res
ReadIdRes(n) == read_block_id_by_num(World, n).res

\* C16: read_signed_block_by_num(n) returns the block numbered n of the live
\* log when head exists and first_block_num <= n <= head.num, otherwise the
\* one of a cataloged segment whose range contains n, and nothing exactly when
\* n is in neither; read_block_id_by_num(n) returns the id of that block in
\* the same cases, and a returned block has number n.
C16_ReadByNumber ==
    AllReturned =>
        \A n \in BlockNums :
            /\ InLiveRange(n) =>
                  /\ ReadRes(n).st = "ok"
                  /\ ReadRes(n).block \in BlocksOf(blog)
            /\ (~InLiveRange(n) /\ SegmentsWith(n) # {}) =>
                  /\ ReadRes(n).st = "ok"
                  /\ \E i \in SegmentsWith(n) :
                        /\ catalog.collection[i].name \in DOMAIN seg_logs
                        /\ ReadRes(n).block \in BlocksOf(seg_logs[catalog.collection[i].name])
            /\ (~InLiveRange(n) /\ SegmentsWith(n) = {}) => ReadRes(n) = ReadNone
            /\ ReadRes(n).st = "ok" => ReadRes(n).block.num = n
            /\ ReadIdRes(n) = IF ReadRes(n).st = "ok" THEN IdOk(ReadRes(n).block) ELSE IdNone

\* The fields of an entry that pruning may not touch.
EntryFrame(e) == << e.size, e.comp, e.bp, e.block.num, calculate_id(e.block) >>

\* C17: a prune_transactions(block_num, ids) call that returns leaves
\* unchanged the entry's size field, compression byte and trailing position,
\* the length of the log, every live index position, every other entry, and
\* the pruned block's number and id.
C17_PruneFrame ==
    [][\A n \in BlockNums, ids \in (SUBSET (1..(NumTrx + 1))) \ {{}} :
          (up /\ ret'.op = "prune" /\ ret'.ok /\ Prune(n, ids)) =>
              /\ blog'.pre = blog.pre
              /\ blog'.tail = blog.tail
              /\ Len(blog'.entries) = Len(blog.entries)
              /\ FileSize(blog') = FileSize(blog)
              /\ bindex' = bindex
              /\ seg_logs' = seg_logs
              /\ seg_idxs' = seg_idxs
              /\ \A i \in 1..Len(blog.entries) :
                    /\ EntryFrame(blog'.entries[i]) = EntryFrame(blog.entries[i])
                    /\ EntryStart(blog', i) = EntryStart(blog, i)
                    /\ EntryBytes(FileVersion(blog'), blog'.entries[i])
                          = EntryBytes(FileVersion(blog), blog.entries[i])
                    /\ blog.entries[i].block.num # n => blog'.entries[i] = blog.entries[i]]_vars

\* A prune that removed data from the first of two blocks of the live log.
C17_Witness ==
    /\ up
    /\ ret.op = "prune"
    /\ ret.ok
    /\ ret.pos >= 1
    /\ Len(blog.entries) >= 2
    /\ blog.entries[1].block.num = ret.n
    /\ blog.entries[1].block.cfd # Trx
    /\ blog.entries[2].block.cfd = Trx

\* C18: prune_transactions(n, ids) returns the number of transactions of
\* block n whose id occurs in ids and removes exactly those from ids; a second
\* call with the same block number and the same original list returns 0.
C18_PruneCount ==
    [][\A n \in BlockNums, ids \in (SUBSET (1..(NumTrx + 1))) \ {{}} :
          (up /\ ret'.op = "prune" /\ ret'.ok /\ Prune(n, ids)) =>
              /\ ret'.pos = Cardinality(ids \cap Trx)
              /\ prune_transactions(World, n, ids).ids = ids \ Trx
              /\ prune_transactions(WorldAfter, n, ids).ok
              /\ prune_transactions(WorldAfter, n, ids).count = 0]_vars

\* No file of the data or archive directory changes in the step.
FilesUnchanged ==
    /\ blog' = blog
    /\ bindex' = bindex
    /\ seg_logs' = seg_logs
    /\ seg_idxs' = seg_idxs
    /\ arch_logs' = arch_logs
    /\ arch_idxs' = arch_idxs

\* C19: prune_transactions fails with its version error when the live
\* preamble's version is below 4, and with its not-in-log error when the
\* block number is outside [first_block_num, head.num], blocks held only by a
\* rotated segment included; in both cases no file changes.
C19_PruneRejects ==
    [][\A n \in BlockNums, ids \in (SUBSET (1..(NumTrx + 1))) \ {{}} :
          (up /\ ret'.op = "prune" /\ Prune(n, ids)) =>
              /\ preamble.version < pruned_transaction_version =>
                    (~ret'.ok /\ ret'.err = "version" /\ FilesUnchanged)
              /\ (preamble.version >= pruned_transaction_version /\ ~InLiveRange(n)) =>
                    (~ret'.ok /\ ret'.err = "not_in_log" /\ FilesUnchanged)]_vars

\* A prune of a block that only a rotated segment holds was rejected.
C19_Witness ==
    /\ up
    /\ ret.op = "prune"
    /\ ret.err = "not_in_log"
    /\ blog.entries # <<>>
    /\ \E nm \in DOMAIN seg_logs : \E i \in 1..Len(catalog.collection) :
          /\ catalog.collection[i].name = nm
          /\ seg_logs[nm].entries # <<>>
          /\ seg_logs[nm].entries[1].block.cfd = Trx

\* trim_blocklog_end(block_dir, n) was called on a log of at least one block
\* whose index agrees with it; First and Last are its block numbers before.
TrimEndCalled == ~up /\ ret'.op = "trim_end" /\ ArchiveOpens(World)
TrimFirst == read_from(blog.pre).p.first_block_num
TrimLast == last_block_num(blog).num

\* C20: trim_blocklog_end(block_dir, n) returns 1 and changes nothing when
\* n < first_block_num, returns 2 and changes nothing when n > last_block_num,
\* and otherwise, n = last_block_num included, returns 0 and leaves log and
\* index holding exactly blocks first_block_num..n, the log ending where
\* block n + 1 started and the index 8 * (n + 1 - first_block_num) bytes long.
C20_TrimEnd ==
    [][TrimEndCalled =>
          LET n == ret'.n
              k == n + 1 - TrimFirst
          IN IF n < TrimFirst THEN ret'.ok /\ ret'.pos = 1 /\ FilesUnchanged
             ELSE IF n > TrimLast THEN ret'.ok /\ ret'.pos = 2 /\ FilesUnchanged
             ELSE /\ ret'.ok
                  /\ ret'.pos = 0
                  /\ blog'.pre = blog.pre
                  /\ blog'.tail = <<>>
                  /\ blog'.entries = SubSeq(blog.entries, 1, k)
                  /\ bindex' = SubSeq(bindex, 1, k)
                  /\ SizeU64 * Len(bindex') = SizeU64 * (n + 1 - TrimFirst)
                  /\ FileSize(blog') = IF k < Len(blog.entries)
                                       THEN EntryStart(blog, k + 1) ELSE FileSize(blog)]_vars

\* trim_blocklog_front(block_dir, temp_dir, k) was called on a log of at least
\* one block whose index agrees with it.
TrimFrontCalled == ~up /\ ret'.op = "trim_front" /\ ArchiveOpens(World)

\* An entry but for its trailing position.
EntryContent(e) == [e EXCEPT !.bp = 0]

\* C21: for first_block_num < k <= last_block_num, trim_blocklog_front returns
\* true and the log then holds exactly blocks k..last, each entry as it was
\* but for its trailing position, under a preamble with first_block_num k and
\* the chain id of the old log; every entry's trailing position is its own
\* start in the new file and the new index lists those starts in block order.
\* For k <= first_block_num or k > last_block_num it returns false and no
\* file changes.
C21_TrimFront ==
    [][TrimFrontCalled =>
          LET k == ret'.n
              d == k - TrimFirst
          IN IF TrimFirst < k /\ k <= TrimLast
             THEN /\ ret'.ok
                  /\ ret'.pos = 1
                  /\ blog'.tail = <<>>
                  /\ Len(blog'.entries) = TrimLast - k + 1
                  /\ \A i \in 1..Len(blog'.entries) :
                        /\ blog'.entries[i].block.num = k + i - 1
                        /\ EntryContent(blog'.entries[i]) = EntryContent(blog.entries[i + d])
                        /\ blog'.entries[i].bp = EntryStart(blog', i)
                  /\ read_from(blog'.pre).ok
                  /\ read_from(blog'.pre).p.first_block_num = k
                  /\ read_from(blog'.pre).p.kind = "chain_id"
                  /\ read_from(blog'.pre).p.val = chain_id(read_from(blog.pre).p)
                  /\ bindex' = [i \in 1..Len(blog'.entries) |-> EntryStart(blog', i)]
             ELSE ret'.ok /\ ret'.pos = 0 /\ FilesUnchanged]_vars

\* The front of a log of three blocks that started with a genesis state was
\* trimmed to its last two, the first of them pruned before.
C21_Witness ==
    /\ ~up
    /\ ret.op = "trim_front"
    /\ ret.pos = 1
    /\ Len(ret.log) = 3
    /\ Len(blog.entries) = 2
    /\ blog.entries[1].block.cfd = {}
    /\ blog.entries[1].block.num = 2
    /\ bindex = << nbytes_with_chain_id, EntryStart(blog, 2) >>
    /\ read_from(blog.pre).p.kind = "chain_id"

\* repair_log was called on a directory whose blocks.log has a preamble that
\* decodes; Validated is the number of entries that passed full validation
\* before the walk ended.
RepairCalled == ~up /\ ret'.op = "repair" /\ read_from(blog.pre).ok
Validated == RepairWalk(blog, 1, read_from(blog.pre).p.first_block_num - 1, ret'.n).n
StoppedAtBadEntry == ret'.how \in {"unpack", "position"}
PrefixOfBackup ==
    /\ backup_log' = blog
    /\ blog'.pre = blog.pre
    /\ blog'.tail = <<>>
    /\ blog'.entries = SubSeq(blog.entries, 1, Validated)
    /\ FileSize(blog') = IF Validated < Len(blog.entries)
                         THEN EntryStart(blog, Validated + 1) ELSE TailStart(blog)
TailOfBackup ==
    /\ bad_tail'.written
    /\ blog'.entries \o bad_tail'.entries = blog.entries
    /\ bad_tail'.tail = blog.tail

WellFormed(f) ==
    /\ read_from(f.pre).ok
    /\ f.entries # <<>>
    /\ f.tail = <<>>
    /\ \A i \in 1..Len(f.entries) :
          /\ f.entries[i].bp = EntryStart(f, i)
          /\ f.entries[i].block.num = read_from(f.pre).p.first_block_num + i - 1

EntryStarts(f) == [i \in 1..Len(f.entries) |-> EntryStart(f, i)]

\* C23: on a well-formed log of k >= 1 blocks construct_index returns and
\* leaves an index of k slots (8k bytes), the i-th being the start offset of
\* the i-th entry, whatever index file was there before; a second run over
\* the index the first one wrote leaves the same file.
C23_ConstructIndex ==
    [][(~up /\ ret'.op = "construct_index" /\ WellFormed(blog)) =>
          /\ ret'.ok
          /\ SizeU64 * Len(bindex') = SizeU64 * Len(blog.entries)
          /\ bindex' = EntryStarts(blog)
          /\ blog' = blog
          /\ construct_index(blog', bindex') = [st |-> "ok", idx |-> bindex']
          /\ ret'.how = "again" => bindex' = bindex]_vars

\* construct_index ran twice over a version 4 log of three blocks whose index
\* had lost its last slot.
C23_Witness ==
    /\ ~up
    /\ ret.op = "construct_index"
    /\ ret.how = "again"
    /\ ret.ok
    /\ FileVersion(blog) = pruned_transaction_version
    /\ Len(blog.entries) = 3
    /\ Len(bindex) = 3

\* C24: under every default version 1..4, the preamble the store holds after
\* a reset or a rotation is what the preamble decoder reads back from
\* blocks.log: same version, first block number, variant and value.
C24_PreambleRoundTrip ==
    (up /\ preamble # DefaultPreamble) =>
        read_from(blog.pre) = [ok |-> TRUE, p |-> preamble]

Registered(nm) == \E i \in 1..Len(catalog.collection) : catalog.collection[i].name = nm

\* C25: a segment file registered in the catalog keeps its bytes through
\* every later reset, append, rotation, read and prune for as long as a file
\* of its name is in data_dir.
C25_SegmentsImmutable ==
    [][\A nm \in DOMAIN seg_logs :
          (up /\ Registered(nm) /\ nm \in DOMAIN seg_logs') => seg_logs'[nm] = seg_logs[nm]]_vars

\* C26: every blocks-<first>-<last>.log in data_dir is the file of a segment
\* registered in the catalog; a rotated segment that was not recorded, or is
\* recorded no more, is not in data_dir.
C26_SegmentFilesAreRegistered ==
    up => \A nm \in DOMAIN seg_logs : Registered(nm)

AppendCalled(b) == up /\ genesis_written_to_block_log /\ ret'.op = "append" /\ AppendBlock(b)
Rejected ==
    /\ ~ret'.ok
    /\ ret'.err = "IndexDesync"
    /\ FilesUnchanged
    /\ head' = head

\* C27: a block passed to append whose number is not one greater than the
\* head's is written to the log all the same and becomes the head.
C27_OutOfSequenceAppended ==
    [][\A b \in Blocks :
          (AppendCalled(b) /\ head # NoBlock /\ b.num # head.num + 1) =>
              (ret'.ok /\ head' = b)]_vars

\* C27 (amended): while the live log holds a block, a block passed to append
\* whose number is not one greater than the head's is rejected with the index
\* position error and no file nor the head changes; while the live log holds
\* none, the same happens to every number but the preamble's first_block_num.
C27_OutOfSequenceRejected ==
    [][\A b \in Blocks :
          AppendCalled(b) =>
              /\ (bindex # <<>> /\ b.num # head.num + 1) => Rejected
              /\ (bindex = <<>> /\ b.num # preamble.first_block_num) => Rejected]_vars

\* An append was rejected by a live log that started at block 1 and holds two.
C27_Witness ==
    /\ up
    /\ ret.op = "append"
    /\ ~ret.ok
    /\ ret.err = "IndexDesync"
    /\ preamble.first_block_num = 1
    /\ Len(bindex) = 2
    /\ head.num = 2

\* The constructor returned normally over a log the store had written and
\* closed and an index file of any content.
ConstructedOverFiles == up /\ ret.op = "reopen" /\ ret.ok /\ ret.prev \in {"close", "stale_index"}

\* C28: when the constructor returns normally over a log that is empty, holds
\* a preamble only or holds well-formed entries, and an index that is empty,
\* correct or stale, the index holds one entry per block of the log, none
\* when the log has no block, and its last entry, if any, is the log's last
\* block position.
C28_IndexReconciled ==
    ConstructedOverFiles =>
        /\ Len(bindex) = Len(blog.entries)
        /\ bindex # <<>> => Last(bindex) = last_block_position(blog)

\* The index file of segment nm exists, holds one position per block of the
\* segment's log and ends with the log's last block position.
IndexComplete(nm) ==
    /\ nm \in DOMAIN seg_idxs
    /\ num_blocks(seg_logs[nm]).ok
    /\ Len(seg_idxs[nm]) = num_blocks(seg_logs[nm]).n
    /\ seg_idxs[nm] # <<>>
    /\ Last(seg_idxs[nm]) = last_block_position(seg_logs[nm])

\* C29: for every segment of the directory, index_matches_data is true
\* exactly when the segment's index exists, has one slot per block of the log
\* and ends with the log's last block position.
C29_IndexMatchesData ==
    \A nm \in DOMAIN seg_logs :
        index_matches_data(seg_idxs, nm, seg_logs[nm]) <=> IndexComplete(nm)

\* The first block number a call that rotated handed to catalog add: the live
\* preamble's for an append, 1 for the append inside reset(genesis, block 1).
RotatedInReset == up /\ ret'.op = "reset" /\ ret'.ok /\ ShouldSplit(1)
AddedFirst == IF RotatedInReset THEN 1 ELSE preamble.first_block_num

\* C30: every rotation calls catalog add with a first block number greater
\* than the first block number of every segment the catalog holds.
C30_AddIsMonotonic ==
    [][(Rotated \/ RotatedInReset) =>
          \A i \in 1..Len(catalog.collection) : catalog.collection[i].first < AddedFirst]_vars

\* The segment the catalog's two views are of: its first block, its last block
\* and the number of positions its index holds.
BoundRange ==
    [first |-> read_from(catalog.log_data.pre).p.first_block_num,
     last |-> last_block_num(catalog.log_data).num,
     slots |-> Len(catalog.log_index)]

RangeOf(item) == [first |-> item.first, last |-> item.last, slots |-> item.last - item.first + 1]

\* C31: after any sequence of set_active_item and add calls the active ordinal
\* is none or the ordinal of the segment whose log and index are bound (add
\* lowers it by the number of evicted leading segments, or makes it none when
\* the active segment is among them).
C31_ActiveIsBound ==
    (up /\ catalog.active_index # 0) =>
        /\ catalog.active_index <= Len(catalog.collection)
        /\ RangeOf(catalog.collection[catalog.active_index]) = BoundRange

\* The cataloged segments whose range holds block n, and whether a segment's
\* two files can be opened.
Covering(n) ==
    {i \in 1..Len(catalog.collection) :
        catalog.collection[i].first <= n /\ n <= catalog.collection[i].last}

FilesOpen(item) ==
    /\ item.name \in DOMAIN seg_logs
    /\ item.name \in DOMAIN seg_idxs
    /\ read_from(seg_logs[item.name].pre).ok

SetActive(n) == set_active_item(catalog, seg_logs, seg_idxs, n)

\* The views bound after set_active_item(n) are those of a segment that holds
\* block n, and the index slot of n is the start of the entry of block n.
BoundTo(cat, n) ==
    /\ cat.active_index \in Covering(n)
    /\ read_from(cat.log_data.pre).p.first_block_num = cat.collection[cat.active_index].first
    /\ last_block_num(cat.log_data).num = cat.collection[cat.active_index].last
    /\ CatalogSlot(cat, n) \in 1..Len(cat.log_index)
    /\ block_num_at(cat.log_data, cat.log_index[CatalogSlot(cat, n)]) = [ok |-> TRUE, num |-> n]

\* C32: set_active_item(n) returns true exactly when a cataloged segment holds
\* block n and its files open; the views bound are then those of that segment
\* and datastream_for_block(n) is at the entry of block n; when it returns
\* false although a segment holds n, the catalog is left unbound.
C32_SetActiveItem ==
    up => \A n \in BlockNums :
            /\ SetActive(n).ok <=> \E i \in Covering(n) : FilesOpen(catalog.collection[i])
            /\ SetActive(n).ok => BoundTo(SetActive(n).cat, n)
            /\ (~SetActive(n).ok /\ Covering(n) # {}) => SetActive(n).cat.active_index = 0

\* A log whose preamble decodes and whose entries, if any, are complete,
\* numbered from the first block number on and end with their own start.
WellFormedLog(f) ==
    /\ read_from(f.pre).ok
    /\ f.tail = <<>>
    /\ \A i \in 1..Len(f.entries) :
          /\ f.entries[i].bp = EntryStart(f, i)
          /\ f.entries[i].block.num = read_from(f.pre).p.first_block_num + i - 1

LogFiles == {blog} \cup {seg_logs[nm] : nm \in DOMAIN seg_logs}

StrictlyDecreasing(s) == \A i \in 1..(Len(s) - 1) : s[i] > s[i + 1]

\* C33: over a well-formed log the reverse walk from the last 8 bytes yields
\* exactly num_blocks positions, strictly decreasing, the last of them the
\* first block position, and npos after them.
C33_ReverseWalk ==
    \A f \in LogFiles :
        WellFormedLog(f) =>
            /\ reverse_walk(f).end = "npos"
            /\ num_blocks(f).ok
            /\ Len(reverse_walk(f).vals) = num_blocks(f).n
            /\ StrictlyDecreasing(reverse_walk(f).vals)
            /\ Len(f.entries) = num_blocks(f).n
            /\ reverse_walk(f).vals # <<>> => Last(reverse_walk(f).vals) = first_block_position(f)

\* A well-formed version 4 log of three blocks, one of them pruned, was walked.
C33_Witness ==
    /\ WellFormedLog(blog)
    /\ Len(blog.entries) = 3
    /\ Len(reverse_walk(blog).vals) = 3
    /\ FileVersion(blog) = pruned_transaction_version
    /\ \E i \in 1..3 : blog.entries[i].block.cfd = {}

\* The bytes reserved for the block of entry e: the block and the padding.
Reserved(e) == pack_size(e.block) + e.pad

EndOfEntry(f, i) == IF i < Len(f.entries) THEN EntryStart(f, i + 1) ELSE FileSize(f)

\* The block as it was appended, before any pruning.
AsAppended(b) == NewBlock(b.num, b.tag)

\* C34: every version 4 entry written by append at offset pos has a size field
\* of the reserved payload bytes + 5 + 8, the next entry or the end of the
\* file is at pos + size, and a reader that decodes the block and skips to
\* pos + size - 8 reads pos there, also after the block was pruned; an entry
\* whose size field is smaller than the bytes the reader consumed is not read
\* but reported as an error.
C34_EntryFraming ==
    \A f \in LogFiles : \A i \in 1..Len(f.entries) :
        FileVersion(f) = pruned_transaction_version =>
            /\ ~hist.damaged =>
                  /\ f.entries[i].size = Reserved(f.entries[i]) + SizeU32 + SizeU8 + SizeU64
                  /\ Reserved(f.entries[i]) = maximum_pruned_pack_size(AsAppended(f.entries[i].block))
                  /\ EndOfEntry(f, i) = EntryStart(f, i) + f.entries[i].size
                  /\ read_block(f, EntryStart(f, i), FileVersion(f), 0) = ReadOk(f.entries[i].block)
                  /\ U64At(f, EntryStart(f, i) + f.entries[i].size - SizeU64) = EntryStart(f, i)
            /\ f.entries[i].size < SizeU32 + SizeU8 + pack_size(f.entries[i].block) =>
                  read_block(f, EntryStart(f, i), FileVersion(f), 0) = ReadErr

\* A pruned entry followed by another one was read back on a store constructed
\* again; and a read of an entry whose size field was damaged failed.
C34_Witness ==
    /\ up
    /\ ret.op = "read"
    /\ ~ret.ok
    /\ hist.damaged
    /\ Len(blog.entries) >= 2
    /\ blog.entries[1].block.cfd = {}
    /\ blog.entries[1].pad > 0
    /\ blog.entries[1].size < SizeU32 + SizeU8 + pack_size(blog.entries[1].block)

Versions == min_supported_version..max_supported_version

\* The store was constructed over a planted preamble of version ret.n and
\* first block number ret.pos (1 for version 1, which stores none).
PlantedFirst == IF ret.n = initial_version THEN 1 ELSE ret.pos
PlantedKind == blog.pre[Len(blog.pre) - (IF ret.n = initial_version THEN 0 ELSE 1)].t

\* C35: for every version 1..4 and first block number >= 1 exactly one of
\* contains_genesis_state and contains_chain_id holds: the former for versions
\* 1 and 2 and for every version with first block number 1, the latter for
\* versions 3 and 4 with a first block number above 1; the decoder rejects a
\* preamble for which neither holds.
C35_GenesisOrChainId ==
    [][/\ \A version \in Versions, first_block_num \in 1..(MaxBlockNum + 1) :
            /\ contains_genesis_state(version, first_block_num)
                  # contains_chain_id(version, first_block_num)
            /\ contains_genesis_state(version, first_block_num)
                  <=> (version \in {initial_version, block_x_start_version} \/ first_block_num = 1)
            /\ contains_chain_id(version, first_block_num)
                  <=> (version \in {genesis_state_or_chain_id_version, pruned_transaction_version}
                         /\ first_block_num > 1)
       /\ (ret'.op = "reopen" /\ ret.op = "plant") =>
             /\ (~contains_genesis_state(ret.n, PlantedFirst) /\ ~contains_chain_id(ret.n, PlantedFirst))
                   => (~up' /\ ret'.err = "preamble")
             /\ (up' \/ ret'.err # "preamble") =>
                   /\ contains_genesis_state(ret.n, PlantedFirst) <=> PlantedKind = "genesis"
                   /\ contains_chain_id(ret.n, PlantedFirst) <=> PlantedKind = "chain_id"]_vars

\* The store was constructed over a version 3 preamble with first block
\* number 0 and the constructor threw out of the preamble decoder.
C35_Witness ==
    /\ ~up
    /\ ret.op = "reopen"
    /\ ret.prev = "plant"
    /\ ret.n = genesis_state_or_chain_id_version
    /\ ret.pos = 0
    /\ ret.err = "preamble"

\* The store as the constructor would leave it on the directory as it is now.
Restarted == construct(Down(World))

\* C36: after any call that returned, destroying the store and constructing
\* it again on the same directory with the same parameters succeeds and gives
\* the same head and the same result of read_signed_block_by_num(n) for every
\* n, also right after a rotation and for every max_retained_files.
C36_RestartPreservesReads ==
    (up /\ ret.ok /\ ~hist.fail) =>
        /\ Restarted.ok
        /\ Restarted.head = head
        /\ \A n \in BlockNums :
              read_block_by_num(Restarted, n).res = read_block_by_num(World, n).res

\* The blocks the files of the directory hold.
BlocksOnDisk == UNION {BlocksOf(f) : f \in LogFiles}

\* C37: when the process stopped at any point inside a rotation, constructing
\* the store again succeeds, every block appended before that retention had
\* not evicted is readable, and append of the block after the last appended
\* one is accepted.
C37_RestartAfterSplitCrash ==
    (ret.op = "reopen" /\ ret.prev = "crash_split") =>
        /\ up
        /\ \A b \in BlocksOnDisk : read_block_by_num(World, b.num).res = ReadOk(b)
        /\ ret.b \in BlocksOnDisk
        /\ \A t \in Tags : append(World, NewBlock(ret.b.num + 1, t)).ok

\* reset(genesis_state, first_block) threw out of append's check of the
\* index position: first_block's number is not 1.
ResetRejectedBlock == up /\ ret'.op = "reset" /\ ~ret'.ok /\ ret'.err = "IndexDesync"

\* C38: a reset(genesis, first_block) that fails because first_block's number
\* is not 1 leaves blocks.log, blocks.index, the preamble and the head as they
\* were before the call.
C38_FailedResetChangesNothing ==
    [][ResetRejectedBlock =>
          /\ blog' = blog
          /\ bindex' = bindex
          /\ preamble' = preamble
          /\ head' = head
          /\ genesis_written_to_block_log' = genesis_written_to_block_log]_vars

\* C39: whenever the head exists, read_signed_block_by_num(n) returns block n
\* for every n from first_block_num() to the head's number, after any
\* sequence of resets of both forms, appends and rotations.
C39_RangeIsReadable ==
    (up /\ head # NoBlock) =>
        \A n \in BlockNums :
            (block_log_first_block_num(World) <= n /\ n <= head.num) =>
                /\ read_block_by_num(World, n).res.st = "ok"
                /\ read_block_by_num(World, n).res.block.num = n

\* C40: both typed make_kv overloads return, for the same arguments and every
\* pair of element types, a key of key_length x sizeof(key element) bytes and
\* a value of value_length x sizeof(value element) bytes.
C40_MakeKvSizes ==
    ret.op = "make_kv" =>
        /\ ret.ok
        /\ ret.n = ret.log[1] * ret.log[2]
        /\ ret.pos = ret.log[3] * ret.log[4]

====
